---- MODULE Spec2Model ----
(***************************************************************************)
(* The ingestion-dedupe-ranking core of daily_ai_timeline:                 *)
(*   utils.normalize_url, utils.extract_numbers, utils.hours_since,        *)
(*   dedupe.title_similarity, dedupe.deduplicate_items, dedupe.score_item, *)
(*   dedupe.score_and_rank_items, dedupe.process_items,                    *)
(* and the functions of ingest that make its items: fetch_rss_feeds,       *)
(* fetch_arxiv, fetch_hackernews, fetch_reddit, with utils.parse_date and  *)
(* utils.clean_html.                                                       *)
(*                                                                         *)
(* Text is a sequence of one-character strings, a URL included.  A score   *)
(* and a similarity ratio are Python floats, computed with the roundings   *)
(* of IEEE 754 binary64.                                                   *)
(***************************************************************************)
EXTENDS Integers, Sequences, FiniteSets, TLC

(***************************************************************************)
(* Bounds of the model.                                                    *)
(***************************************************************************)
MaxItems == 3       \* longest item list handed to the core
MaxTopN == 2        \* largest top_n
MaxDrop == 1        \* a negative top_n drops at most this many items
MaxQuery == 3       \* most key=value pairs in a query string

(***************************************************************************)
(* Small helpers on integers and sets of integers.                         *)
(***************************************************************************)
Min(x, y) == IF x <= y THEN x ELSE y
Max(x, y) == IF x >= y THEN x ELSE y
Abs(x) == IF x < 0 THEN -x ELSE x

SetMin(S) == CHOOSE k \in S : \A m \in S : k <= m
SetMax(S) == CHOOSE k \in S : \A m \in S : k >= m

(***************************************************************************)
(* Python floats: IEEE 754 binary64, every operation rounded to nearest,   *)
(* ties to even.  A natural number of any size is the sequence of its      *)
(* digits in base 2^15, lowest digit first, without leading zero digits.   *)
(* A float is the record [neg, man, exp] of value (-1)^neg * man * 2^exp   *)
(* with man odd, or zero (man <<>>, exp 0, neg FALSE).  Infinities, NaN,   *)
(* subnormal numbers and the sign of zero lie outside the hours and        *)
(* scores the program computes and are not modelled.                       *)
(***************************************************************************)
\* the base of the digits, 2^15: a product of two digits stays below 2^31
BigBase == 32768

BigBits == 15

\* the significand of a binary64 has 53 bits
FloatBits == 53

RECURSIVE BigTrim(_)
BigTrim(x) ==
  IF Len(x) > 0 /\ x[Len(x)] = 0 THEN BigTrim(SubSeq(x, 1, Len(x) - 1)) ELSE x

RECURSIVE BigFromInt(_)
BigFromInt(n) ==
  IF n = 0 THEN <<>> ELSE <<n % BigBase>> \o BigFromInt(n \div BigBase)

BigDigit(x, k) == IF k >= 1 /\ k <= Len(x) THEN x[k] ELSE 0

RECURSIVE BigAddFrom(_, _, _, _)
BigAddFrom(x, y, k, carry) ==
  IF k > Len(x) /\ k > Len(y)
  THEN IF carry = 0 THEN <<>> ELSE <<carry>>
  ELSE LET s == BigDigit(x, k) + BigDigit(y, k) + carry
       IN  <<s % BigBase>> \o BigAddFrom(x, y, k + 1, s \div BigBase)

BigAdd(x, y) == BigAddFrom(x, y, 1, 0)

\* x - y for x >= y
RECURSIVE BigSubFrom(_, _, _, _)
BigSubFrom(x, y, k, borrow) ==
  IF k > Len(x) THEN <<>>
  ELSE LET d == BigDigit(x, k) - BigDigit(y, k) - borrow
       IN  IF d < 0 THEN <<d + BigBase>> \o BigSubFrom(x, y, k + 1, 1)
           ELSE <<d>> \o BigSubFrom(x, y, k + 1, 0)

BigSub(x, y) == BigTrim(BigSubFrom(x, y, 1, 0))

\* -1, 0 or 1 as x is below, equal to or above y, from digit k down
RECURSIVE BigCmpFrom(_, _, _)
BigCmpFrom(x, y, k) ==
  IF k = 0 THEN 0
  ELSE IF x[k] < y[k] THEN -1
  ELSE IF x[k] > y[k] THEN 1
  ELSE BigCmpFrom(x, y, k - 1)

BigCmp(x, y) ==
  IF Len(x) < Len(y) THEN -1
  ELSE IF Len(x) > Len(y) THEN 1
  ELSE BigCmpFrom(x, y, Len(x))

\* x * m for one digit m
RECURSIVE BigMulDigitFrom(_, _, _, _)
BigMulDigitFrom(x, m, k, carry) ==
  IF k > Len(x) THEN IF carry = 0 THEN <<>> ELSE <<carry>>
  ELSE LET p == x[k] * m + carry
       IN  <<p % BigBase>> \o BigMulDigitFrom(x, m, k + 1, p \div BigBase)

BigMulDigit(x, m) == IF m = 0 THEN <<>> ELSE BigMulDigitFrom(x, m, 1, 0)

RECURSIVE BigMul(_, _)
BigMul(x, y) ==
  IF Len(y) = 0 \/ Len(x) = 0 THEN <<>>
  ELSE BigAdd(BigMulDigit(x, y[1]),
              LET rest == BigMul(x, Tail(y))
              IN  IF Len(rest) = 0 THEN <<>> ELSE <<0>> \o rest)

\* quotient and remainder of x by one digit d > 0, from digit k up
RECURSIVE BigDivDigitFrom(_, _, _)
BigDivDigitFrom(x, d, k) ==
  IF k > Len(x) THEN [q |-> <<>>, r |-> 0]
  ELSE LET high == BigDivDigitFrom(x, d, k + 1)
           cur == high.r * BigBase + x[k]
       IN  [q |-> <<cur \div d>> \o high.q, r |-> cur % d]

BigDivDigit(x, d) ==
  LET qr == BigDivDigitFrom(x, d, 1) IN [q |-> BigTrim(qr.q), r |-> qr.r]

\* x * 2^n
BigShl(x, n) ==
  IF Len(x) = 0 THEN <<>>
  ELSE [k \in 1..(n \div BigBits) |-> 0] \o BigMulDigit(x, 2 ^ (n % BigBits))

\* x \div 2^n
BigShr(x, n) ==
  IF n \div BigBits >= Len(x) THEN <<>>
  ELSE BigDivDigit(SubSeq(x, n \div BigBits + 1, Len(x)), 2 ^ (n % BigBits)).q

\* bit i of x, bit 0 the lowest
BigBit(x, i) == (BigDigit(x, i \div BigBits + 1) \div 2 ^ (i % BigBits)) % 2

\* the bits of x below bit n are all 0
BigLowZero(x, n) ==
  /\ \A k \in 1..(n \div BigBits) : BigDigit(x, k) = 0
  /\ BigDigit(x, n \div BigBits + 1) % 2 ^ (n % BigBits) = 0

RECURSIVE IntBitLen(_)
IntBitLen(n) == IF n = 0 THEN 0 ELSE 1 + IntBitLen(n \div 2)

BigBitLen(x) ==
  IF Len(x) = 0 THEN 0 ELSE BigBits * (Len(x) - 1) + IntBitLen(x[Len(x)])

\* the number of 0 bits below the lowest 1 bit of x # 0
RECURSIVE BigLowZeros(_, _)
BigLowZeros(x, i) == IF BigBit(x, i) = 1 THEN i ELSE BigLowZeros(x, i + 1)

\* the largest digit d with y * d <= cur, known to lie in lo..(hi - 1)
RECURSIVE BigQuotDigit(_, _, _, _)
BigQuotDigit(cur, y, lo, hi) ==
  IF hi - lo <= 1 THEN lo
  ELSE LET mid == (lo + hi) \div 2
       IN  IF BigCmp(BigMulDigit(y, mid), cur) <= 0
           THEN BigQuotDigit(cur, y, mid, hi)
           ELSE BigQuotDigit(cur, y, lo, mid)

\* quotient and remainder of x by y # 0, digit by digit from digit k up
RECURSIVE BigDivFrom(_, _, _)
BigDivFrom(x, y, k) ==
  IF k > Len(x) THEN [q |-> <<>>, r |-> <<>>]
  ELSE LET high == BigDivFrom(x, y, k + 1)
           cur == BigTrim(<<x[k]>> \o high.r)
           d == BigQuotDigit(cur, y, 0, BigBase)
       IN  [q |-> <<d>> \o high.q, r |-> BigSub(cur, BigMulDigit(y, d))]

BigDiv(x, y) ==
  IF Len(y) = 1
  THEN LET qr == BigDivDigit(x, y[1]) IN [q |-> qr.q, r |-> BigFromInt(qr.r)]
  ELSE LET qr == BigDivFrom(x, y, 1) IN [q |-> BigTrim(qr.q), r |-> qr.r]

FloatZero == [neg |-> FALSE, man |-> <<>>, exp |-> 0]

\* the float of value (-1)^neg * man * 2^exp when man has at most 53 bits
FloatOf(neg, man, exp) ==
  IF Len(man) = 0 THEN FloatZero
  ELSE LET z == BigLowZeros(man, 0)
       IN  [neg |-> neg, man |-> BigShr(man, z), exp |-> exp + z]

\* (-1)^neg * man * 2^exp rounded to 53 bits, to nearest, ties to even
FloatRound(neg, man, exp) ==
  LET n == BigBitLen(man)
      cut == n - FloatBits
  IN  IF cut <= 0 THEN FloatOf(neg, man, exp)
      ELSE LET kept == BigShr(man, cut)
               up == /\ BigBit(man, cut - 1) = 1
                     /\ ~BigLowZero(man, cut - 1) \/ BigBit(kept, 0) = 1
           IN  FloatOf(neg, IF up THEN BigAdd(kept, <<1>>) ELSE kept, exp + cut)

\* float(n) for an int n
FloatFromInt(n) == FloatRound(n < 0, BigFromInt(Abs(n)), 0)

FloatNeg(x) == IF Len(x.man) = 0 THEN x ELSE [x EXCEPT !.neg = ~x.neg]

\* x + y
FloatAdd(x, y) ==
  LET e == Min(x.exp, y.exp)
      a == BigShl(x.man, x.exp - e)
      b == BigShl(y.man, y.exp - e)
  IN  IF x.neg = y.neg THEN FloatRound(x.neg, BigAdd(a, b), e)
      ELSE IF BigCmp(a, b) >= 0 THEN FloatRound(x.neg, BigSub(a, b), e)
      ELSE FloatRound(y.neg, BigSub(b, a), e)

\* x - y
FloatSub(x, y) == FloatAdd(x, FloatNeg(y))

\* x * y
FloatMul(x, y) == FloatRound(x.neg # y.neg, BigMul(x.man, y.man), x.exp + y.exp)

\* x / y for y # 0: the quotient of the significands is taken to 55 bits or
\* more, with one more bit that tells whether anything was left over
FloatDiv(x, y) ==
  IF Len(x.man) = 0 THEN FloatZero
  ELSE LET shift == Max(0, FloatBits + 2 + BigBitLen(y.man) - BigBitLen(x.man))
           qr == BigDiv(BigShl(x.man, shift), y.man)
           sticky == IF Len(qr.r) = 0 THEN <<>> ELSE <<1>>
       IN  FloatRound(x.neg # y.neg, BigAdd(BigShl(qr.q, 1), sticky),
                      x.exp - y.exp - shift - 1)

\* x < y
FloatLess(x, y) ==
  LET e == Min(x.exp, y.exp)
      c == BigCmp(BigShl(x.man, x.exp - e), BigShl(y.man, y.exp - e))
  IN  IF x.neg # y.neg THEN x.neg
      ELSE IF x.neg THEN c > 0 ELSE c < 0

\* x <= y
FloatLeq(x, y) == ~FloatLess(y, x)

(***************************************************************************)
(* Text helpers: str.lower, str.strip, substring test.  The characters of  *)
(* the model are listed in CodePointTable; the tables below give, for      *)
(* these characters, what Python's str methods and the re module do.       *)
(***************************************************************************)
\* the pairs <<c, ord(c)>> for the characters of the model: U+0001 to U+00FF
\* without "`", the Greek block from U+0384 to U+03FC, U+1680 and U+FFFD
CodePointPairs ==
  { <<"", 1>>, <<"", 2>>, <<"", 3>>, <<"", 4>>, <<"", 5>>, <<"", 6>>,
    <<"", 7>>, <<"", 8>>, <<"\t", 9>>, <<"\n", 10>>, <<"", 11>>,
    <<"\f", 12>>, <<"\r", 13>>, <<"", 14>>, <<"", 15>>, <<"", 16>>,
    <<"", 17>>, <<"", 18>>, <<"", 19>>, <<"", 20>>, <<"", 21>>,
    <<"", 22>>, <<"", 23>>, <<"", 24>>, <<"", 25>>, <<"", 26>>,
    <<"", 27>>, <<"", 28>>, <<"", 29>>, <<"", 30>>, <<"", 31>>,
    <<" ", 32>>, <<"!", 33>>, <<"\"", 34>>, <<"#", 35>>, <<"$", 36>>,
    <<"%", 37>>, <<"&", 38>>, <<"'", 39>>, <<"(", 40>>, <<")", 41>>,
    <<"*", 42>>, <<"+", 43>>, <<",", 44>>, <<"-", 45>>, <<".", 46>>,
    <<"/", 47>>, <<"0", 48>>, <<"1", 49>>, <<"2", 50>>, <<"3", 51>>,
    <<"4", 52>>, <<"5", 53>>, <<"6", 54>>, <<"7", 55>>, <<"8", 56>>,
    <<"9", 57>>, <<":", 58>>, <<";", 59>>, <<"<", 60>>, <<"=", 61>>,
    <<">", 62>>, <<"?", 63>>, <<"@", 64>>, <<"A", 65>>, <<"B", 66>>,
    <<"C", 67>>, <<"D", 68>>, <<"E", 69>>, <<"F", 70>>, <<"G", 71>>,
    <<"H", 72>>, <<"I", 73>>, <<"J", 74>>, <<"K", 75>>, <<"L", 76>>,
    <<"M", 77>>, <<"N", 78>>, <<"O", 79>>, <<"P", 80>>, <<"Q", 81>>,
    <<"R", 82>>, <<"S", 83>>, <<"T", 84>>, <<"U", 85>>, <<"V", 86>>,
    <<"W", 87>>, <<"X", 88>>, <<"Y", 89>>, <<"Z", 90>>, <<"[", 91>>,
    <<"\\", 92>>, <<"]", 93>>, <<"^", 94>>, <<"_", 95>>, <<"a", 97>>,
    <<"b", 98>>, <<"c", 99>>, <<"d", 100>>, <<"e", 101>>, <<"f", 102>>,
    <<"g", 103>>, <<"h", 104>>, <<"i", 105>>, <<"j", 106>>, <<"k", 107>>,
    <<"l", 108>>, <<"m", 109>>, <<"n", 110>>, <<"o", 111>>, <<"p", 112>>,
    <<"q", 113>>, <<"r", 114>>, <<"s", 115>>, <<"t", 116>>, <<"u", 117>>,
    <<"v", 118>>, <<"w", 119>>, <<"x", 120>>, <<"y", 121>>, <<"z", 122>>,
    <<"{", 123>>, <<"|", 124>>, <<"}", 125>>, <<"~", 126>>, <<"", 127>>,
    <<"", 128>>, <<"", 129>>, <<"", 130>>, <<"", 131>>, <<"", 132>>,
    <<"", 133>>, <<"", 134>>, <<"", 135>>, <<"", 136>>, <<"", 137>>,
    <<"", 138>>, <<"", 139>>, <<"", 140>>, <<"", 141>>, <<"", 142>>,
    <<"", 143>>, <<"", 144>>, <<"", 145>>, <<"", 146>>, <<"", 147>>,
    <<"", 148>>, <<"", 149>>, <<"", 150>>, <<"", 151>>, <<"", 152>>,
    <<"", 153>>, <<"", 154>>, <<"", 155>>, <<"", 156>>, <<"", 157>>,
    <<"", 158>>, <<"", 159>>, <<" ", 160>>, <<"¡", 161>>, <<"¢", 162>>,
    <<"£", 163>>, <<"¤", 164>>, <<"¥", 165>>, <<"¦", 166>>, <<"§", 167>>,
    <<"¨", 168>>, <<"©", 169>>, <<"ª", 170>>, <<"«", 171>>, <<"¬", 172>>,
    <<"­", 173>>, <<"®", 174>>, <<"¯", 175>>, <<"°", 176>>, <<"±", 177>>,
    <<"²", 178>>, <<"³", 179>>, <<"´", 180>>, <<"µ", 181>>, <<"¶", 182>>,
    <<"·", 183>>, <<"¸", 184>>, <<"¹", 185>>, <<"º", 186>>, <<"»", 187>>,
    <<"¼", 188>>, <<"½", 189>>, <<"¾", 190>>, <<"¿", 191>>, <<"À", 192>>,
    <<"Á", 193>>, <<"Â", 194>>, <<"Ã", 195>>, <<"Ä", 196>>, <<"Å", 197>>,
    <<"Æ", 198>>, <<"Ç", 199>>, <<"È", 200>>, <<"É", 201>>, <<"Ê", 202>>,
    <<"Ë", 203>>, <<"Ì", 204>>, <<"Í", 205>>, <<"Î", 206>>, <<"Ï", 207>>,
    <<"Ð", 208>>, <<"Ñ", 209>>, <<"Ò", 210>>, <<"Ó", 211>>, <<"Ô", 212>>,
    <<"Õ", 213>>, <<"Ö", 214>>, <<"×", 215>>, <<"Ø", 216>>, <<"Ù", 217>>,
    <<"Ú", 218>>, <<"Û", 219>>, <<"Ü", 220>>, <<"Ý", 221>>, <<"Þ", 222>>,
    <<"ß", 223>>, <<"à", 224>>, <<"á", 225>>, <<"â", 226>>, <<"ã", 227>>,
    <<"ä", 228>>, <<"å", 229>>, <<"æ", 230>>, <<"ç", 231>>, <<"è", 232>>,
    <<"é", 233>>, <<"ê", 234>>, <<"ë", 235>>, <<"ì", 236>>, <<"í", 237>>,
    <<"î", 238>>, <<"ï", 239>>, <<"ð", 240>>, <<"ñ", 241>>, <<"ò", 242>>,
    <<"ó", 243>>, <<"ô", 244>>, <<"õ", 245>>, <<"ö", 246>>, <<"÷", 247>>,
    <<"ø", 248>>, <<"ù", 249>>, <<"ú", 250>>, <<"û", 251>>, <<"ü", 252>>,
    <<"ý", 253>>, <<"þ", 254>>, <<"ÿ", 255>>, <<"΄", 900>>, <<"΅", 901>>,
    <<"Ά", 902>>, <<"·", 903>>, <<"Έ", 904>>, <<"Ή", 905>>, <<"Ί", 906>>,
    <<"Ό", 908>>, <<"Ύ", 910>>, <<"Ώ", 911>>, <<"ΐ", 912>>, <<"Α", 913>>,
    <<"Β", 914>>, <<"Γ", 915>>, <<"Δ", 916>>, <<"Ε", 917>>, <<"Ζ", 918>>,
    <<"Η", 919>>, <<"Θ", 920>>, <<"Ι", 921>>, <<"Κ", 922>>, <<"Λ", 923>>,
    <<"Μ", 924>>, <<"Ν", 925>>, <<"Ξ", 926>>, <<"Ο", 927>>, <<"Π", 928>>,
    <<"Ρ", 929>>, <<"Σ", 931>>, <<"Τ", 932>>, <<"Υ", 933>>, <<"Φ", 934>>,
    <<"Χ", 935>>, <<"Ψ", 936>>, <<"Ω", 937>>, <<"Ϊ", 938>>, <<"Ϋ", 939>>,
    <<"ά", 940>>, <<"έ", 941>>, <<"ή", 942>>, <<"ί", 943>>, <<"ΰ", 944>>,
    <<"α", 945>>, <<"β", 946>>, <<"γ", 947>>, <<"δ", 948>>, <<"ε", 949>>,
    <<"ζ", 950>>, <<"η", 951>>, <<"θ", 952>>, <<"ι", 953>>, <<"κ", 954>>,
    <<"λ", 955>>, <<"μ", 956>>, <<"ν", 957>>, <<"ξ", 958>>, <<"ο", 959>>,
    <<"π", 960>>, <<"ρ", 961>>, <<"ς", 962>>, <<"σ", 963>>, <<"τ", 964>>,
    <<"υ", 965>>, <<"φ", 966>>, <<"χ", 967>>, <<"ψ", 968>>, <<"ω", 969>>,
    <<"ϊ", 970>>, <<"ϋ", 971>>, <<"ό", 972>>, <<"ύ", 973>>, <<"ώ", 974>>,
    <<"Ϗ", 975>>, <<"ϐ", 976>>, <<"ϑ", 977>>, <<"ϒ", 978>>, <<"ϓ", 979>>,
    <<"ϔ", 980>>, <<"ϕ", 981>>, <<"ϖ", 982>>, <<"ϗ", 983>>, <<"Ϙ", 984>>,
    <<"ϙ", 985>>, <<"Ϛ", 986>>, <<"ϛ", 987>>, <<"Ϝ", 988>>, <<"ϝ", 989>>,
    <<"Ϟ", 990>>, <<"ϟ", 991>>, <<"Ϡ", 992>>, <<"ϡ", 993>>, <<"Ϣ", 994>>,
    <<"ϣ", 995>>, <<"Ϥ", 996>>, <<"ϥ", 997>>, <<"Ϧ", 998>>, <<"ϧ", 999>>,
    <<"Ϩ", 1000>>, <<"ϩ", 1001>>, <<"Ϫ", 1002>>, <<"ϫ", 1003>>, <<"Ϭ", 1004>>,
    <<"ϭ", 1005>>, <<"Ϯ", 1006>>, <<"ϯ", 1007>>, <<"ϰ", 1008>>, <<"ϱ", 1009>>,
    <<"ϲ", 1010>>, <<"ϳ", 1011>>, <<"ϴ", 1012>>, <<"ϵ", 1013>>, <<"϶", 1014>>,
    <<"Ϸ", 1015>>, <<"ϸ", 1016>>, <<"Ϲ", 1017>>, <<"Ϻ", 1018>>, <<"ϻ", 1019>>,
    <<"ϼ", 1020>>, <<" ", 5760>>, <<"�", 65533>> }

\* ord(c) as a function of the character
CodePointTable ==
  [c \in {p[1] : p \in CodePointPairs} |->
     (CHOOSE p \in CodePointPairs : p[1] = c)[2]]

\* the pairs <<c, c.lower()>> for the characters that have a lower-case
\* form other than themselves
LowerPairs ==
  { <<"A", "a">>, <<"B", "b">>, <<"C", "c">>, <<"D", "d">>, <<"E", "e">>,
    <<"F", "f">>, <<"G", "g">>, <<"H", "h">>, <<"I", "i">>, <<"J", "j">>,
    <<"K", "k">>, <<"L", "l">>, <<"M", "m">>, <<"N", "n">>, <<"O", "o">>,
    <<"P", "p">>, <<"Q", "q">>, <<"R", "r">>, <<"S", "s">>, <<"T", "t">>,
    <<"U", "u">>, <<"V", "v">>, <<"W", "w">>, <<"X", "x">>, <<"Y", "y">>,
    <<"Z", "z">>, <<"À", "à">>, <<"Á", "á">>, <<"Â", "â">>, <<"Ã", "ã">>,
    <<"Ä", "ä">>, <<"Å", "å">>, <<"Æ", "æ">>, <<"Ç", "ç">>, <<"È", "è">>,
    <<"É", "é">>, <<"Ê", "ê">>, <<"Ë", "ë">>, <<"Ì", "ì">>, <<"Í", "í">>,
    <<"Î", "î">>, <<"Ï", "ï">>, <<"Ð", "ð">>, <<"Ñ", "ñ">>, <<"Ò", "ò">>,
    <<"Ó", "ó">>, <<"Ô", "ô">>, <<"Õ", "õ">>, <<"Ö", "ö">>, <<"Ø", "ø">>,
    <<"Ù", "ù">>, <<"Ú", "ú">>, <<"Û", "û">>, <<"Ü", "ü">>, <<"Ý", "ý">>,
    <<"Þ", "þ">>, <<"Ά", "ά">>, <<"Έ", "έ">>, <<"Ή", "ή">>, <<"Ί", "ί">>,
    <<"Ό", "ό">>, <<"Ύ", "ύ">>, <<"Ώ", "ώ">>, <<"Α", "α">>, <<"Β", "β">>,
    <<"Γ", "γ">>, <<"Δ", "δ">>, <<"Ε", "ε">>, <<"Ζ", "ζ">>, <<"Η", "η">>,
    <<"Θ", "θ">>, <<"Ι", "ι">>, <<"Κ", "κ">>, <<"Λ", "λ">>, <<"Μ", "μ">>,
    <<"Ν", "ν">>, <<"Ξ", "ξ">>, <<"Ο", "ο">>, <<"Π", "π">>, <<"Ρ", "ρ">>,
    <<"Σ", "σ">>, <<"Τ", "τ">>, <<"Υ", "υ">>, <<"Φ", "φ">>, <<"Χ", "χ">>,
    <<"Ψ", "ψ">>, <<"Ω", "ω">>, <<"Ϊ", "ϊ">>, <<"Ϋ", "ϋ">>, <<"Ϗ", "ϗ">>,
    <<"Ϙ", "ϙ">>, <<"Ϛ", "ϛ">>, <<"Ϝ", "ϝ">>, <<"Ϟ", "ϟ">>, <<"Ϡ", "ϡ">>,
    <<"Ϣ", "ϣ">>, <<"Ϥ", "ϥ">>, <<"Ϧ", "ϧ">>, <<"Ϩ", "ϩ">>, <<"Ϫ", "ϫ">>,
    <<"Ϭ", "ϭ">>, <<"Ϯ", "ϯ">>, <<"ϴ", "θ">>, <<"Ϸ", "ϸ">>, <<"Ϲ", "ϲ">>,
    <<"Ϻ", "ϻ">> }

\* c.lower() as a function of the character
LowerTable ==
  [c \in {p[1] : p \in LowerPairs} |->
     (CHOOSE p \in LowerPairs : p[1] = c)[2]]

\* the characters c with c.isspace(), which str.strip() removes
WhitespaceChars ==
  {"\t", "\n", "", "\f", "\r", "", "", "", "", " ", "", " ", " " }

\* the characters the pattern \w matches in a str pattern: c.isalnum() or "_"
WordChars ==
  {"0", "1", "2", "3", "4", "5", "6", "7", "8", "9", "A", "B", "C", "D",
    "E", "F", "G", "H", "I", "J", "K", "L", "M", "N", "O", "P", "Q", "R",
    "S", "T", "U", "V", "W", "X", "Y", "Z", "_", "a", "b", "c", "d", "e",
    "f", "g", "h", "i", "j", "k", "l", "m", "n", "o", "p", "q", "r", "s",
    "t", "u", "v", "w", "x", "y", "z", "ª", "²", "³", "µ", "¹", "º", "¼",
    "½", "¾", "À", "Á", "Â", "Ã", "Ä", "Å", "Æ", "Ç", "È", "É", "Ê", "Ë",
    "Ì", "Í", "Î", "Ï", "Ð", "Ñ", "Ò", "Ó", "Ô", "Õ", "Ö", "Ø", "Ù", "Ú",
    "Û", "Ü", "Ý", "Þ", "ß", "à", "á", "â", "ã", "ä", "å", "æ", "ç", "è",
    "é", "ê", "ë", "ì", "í", "î", "ï", "ð", "ñ", "ò", "ó", "ô", "õ", "ö",
    "ø", "ù", "ú", "û", "ü", "ý", "þ", "ÿ", "Ά", "Έ", "Ή", "Ί", "Ό", "Ύ",
    "Ώ", "ΐ", "Α", "Β", "Γ", "Δ", "Ε", "Ζ", "Η", "Θ", "Ι", "Κ", "Λ", "Μ",
    "Ν", "Ξ", "Ο", "Π", "Ρ", "Σ", "Τ", "Υ", "Φ", "Χ", "Ψ", "Ω", "Ϊ", "Ϋ",
    "ά", "έ", "ή", "ί", "ΰ", "α", "β", "γ", "δ", "ε", "ζ", "η", "θ", "ι",
    "κ", "λ", "μ", "ν", "ξ", "ο", "π", "ρ", "ς", "σ", "τ", "υ", "φ", "χ",
    "ψ", "ω", "ϊ", "ϋ", "ό", "ύ", "ώ", "Ϗ", "ϐ", "ϑ", "ϒ", "ϓ", "ϔ", "ϕ",
    "ϖ", "ϗ", "Ϙ", "ϙ", "Ϛ", "ϛ", "Ϝ", "ϝ", "Ϟ", "ϟ", "Ϡ", "ϡ", "Ϣ", "ϣ",
    "Ϥ", "ϥ", "Ϧ", "ϧ", "Ϩ", "ϩ", "Ϫ", "ϫ", "Ϭ", "ϭ", "Ϯ", "ϯ", "ϰ", "ϱ",
    "ϲ", "ϳ", "ϴ", "ϵ", "Ϸ", "ϸ", "Ϲ", "Ϻ", "ϻ", "ϼ" }

\* the cased characters (upper-case, lower-case or title-case letters)
CasedChars ==
  {"A", "B", "C", "D", "E", "F", "G", "H", "I", "J", "K", "L", "M", "N",
    "O", "P", "Q", "R", "S", "T", "U", "V", "W", "X", "Y", "Z", "a", "b",
    "c", "d", "e", "f", "g", "h", "i", "j", "k", "l", "m", "n", "o", "p",
    "q", "r", "s", "t", "u", "v", "w", "x", "y", "z", "ª", "µ", "º", "À",
    "Á", "Â", "Ã", "Ä", "Å", "Æ", "Ç", "È", "É", "Ê", "Ë", "Ì", "Í", "Î",
    "Ï", "Ð", "Ñ", "Ò", "Ó", "Ô", "Õ", "Ö", "Ø", "Ù", "Ú", "Û", "Ü", "Ý",
    "Þ", "ß", "à", "á", "â", "ã", "ä", "å", "æ", "ç", "è", "é", "ê", "ë",
    "ì", "í", "î", "ï", "ð", "ñ", "ò", "ó", "ô", "õ", "ö", "ø", "ù", "ú",
    "û", "ü", "ý", "þ", "ÿ", "Ά", "Έ", "Ή", "Ί", "Ό", "Ύ", "Ώ", "ΐ", "Α",
    "Β", "Γ", "Δ", "Ε", "Ζ", "Η", "Θ", "Ι", "Κ", "Λ", "Μ", "Ν", "Ξ", "Ο",
    "Π", "Ρ", "Σ", "Τ", "Υ", "Φ", "Χ", "Ψ", "Ω", "Ϊ", "Ϋ", "ά", "έ", "ή",
    "ί", "ΰ", "α", "β", "γ", "δ", "ε", "ζ", "η", "θ", "ι", "κ", "λ", "μ",
    "ν", "ξ", "ο", "π", "ρ", "ς", "σ", "τ", "υ", "φ", "χ", "ψ", "ω", "ϊ",
    "ϋ", "ό", "ύ", "ώ", "Ϗ", "ϐ", "ϑ", "ϒ", "ϓ", "ϔ", "ϕ", "ϖ", "ϗ", "Ϙ",
    "ϙ", "Ϛ", "ϛ", "Ϝ", "ϝ", "Ϟ", "ϟ", "Ϡ", "ϡ", "Ϣ", "ϣ", "Ϥ", "ϥ", "Ϧ",
    "ϧ", "Ϩ", "ϩ", "Ϫ", "ϫ", "Ϭ", "ϭ", "Ϯ", "ϯ", "ϰ", "ϱ", "ϲ", "ϳ", "ϴ",
    "ϵ", "Ϸ", "ϸ", "Ϲ", "Ϻ", "ϻ", "ϼ" }

\* the case-ignorable characters: marks and punctuation inside words
CaseIgnorableChars ==
  {"'", ".", ":", "^", "¨", "­", "¯", "´", "·", "¸", "΄", "΅", "·" }

Digits == {"0","1","2","3","4","5","6","7","8","9"}

LowerChar(c) == IF c \in DOMAIN LowerTable THEN LowerTable[c] ELSE c

\* The capital sigma at s[k] is final: the nearest character before it that
\* is not case-ignorable is cased, and the nearest one after it, if any, is
\* not cased.
FinalSigma(s, k) ==
  LET before == {m \in 1..(k - 1) : s[m] \notin CaseIgnorableChars}
      after == {m \in (k + 1)..Len(s) : s[m] \notin CaseIgnorableChars}
  IN  /\ before # {}
      /\ s[SetMax(before)] \in CasedChars
      /\ after = {} \/ s[SetMin(after)] \notin CasedChars

\* str.lower()
Lower(s) ==
  [k \in 1..Len(s) |->
     IF s[k] = "Σ" THEN (IF FinalSigma(s, k) THEN "ς" ELSE "σ")
     ELSE LowerChar(s[k])]

IsSpace(c) == c \in WhitespaceChars

\* str.strip(): drop leading and trailing whitespace
Strip(s) ==
  LET keep == {k \in 1..Len(s) : ~IsSpace(s[k])}
  IN  IF keep = {} THEN <<>>
      ELSE SubSeq(s, SetMin(keep), SetMax(keep))

\* Python's "needle in hay" for strings
Contains(hay, needle) ==
  \E k \in 0..(Len(hay) - Len(needle)) :
     \A m \in 1..Len(needle) : hay[k + m] = needle[m]

(***************************************************************************)
(* dedupe.title_similarity: difflib.SequenceMatcher(None, t1, t2).ratio(). *)
(* No junk function is given; autojunk is on, so in a second string of 200 *)
(* characters or more the popular characters start no match.               *)
(***************************************************************************)
\* SequenceMatcher.__chain_b: the characters of b that occur more than
\* len(b) // 100 + 1 times, when len(b) >= 200; they are taken out of b2j.
Popular(b) ==
  IF Len(b) < 200 THEN {}
  ELSE {c \in {b[k] : k \in 1..Len(b)} :
          Cardinality({k \in 1..Len(b) : b[k] = c}) > Len(b) \div 100 + 1}

\* length of the common run of a and b that ends at a[i], b[j], stays inside
\* the window (a from alo, b from blo) and holds no popular character:
\* SequenceMatcher's j2len
CommonRun(a, b, popular, i, j, alo, blo) ==
  IF a[i] # b[j] \/ b[j] \in popular THEN 0
  ELSE LET lim == Min(i - alo, j - blo) + 1
           stops == {m \in 1..(lim - 1) :
                       a[i - m] # b[j - m] \/ b[j - m] \in popular}
       IN  IF stops = {} THEN lim ELSE SetMin(stops)

\* SequenceMatcher.find_longest_match on a[alo..ahi], b[blo..bhi]
\* (1-based, both ends included), before the block is extended: the longest
\* run, of those the one starting earliest in a, of those the one starting
\* earliest in b; with no run, the empty block at (alo, blo).
LongestRun(a, b, popular, alo, ahi, blo, bhi) ==
  LET ends == (alo..ahi) \X (blo..bhi)
      run == [p \in ends |-> CommonRun(a, b, popular, p[1], p[2], alo, blo)]
      bestsize == SetMax({run[p] : p \in ends})
      iend == SetMin({p[1] : p \in {q \in ends : run[q] = bestsize}})
      jend == SetMin({p[2] : p \in {q \in ends : run[q] = bestsize /\ q[1] = iend}})
  IN  IF bestsize = 0 THEN [i |-> alo, j |-> blo, size |-> 0]
      ELSE [i |-> iend - bestsize + 1, j |-> jend - bestsize + 1, size |-> bestsize]

\* find_longest_match, second half: the block best is extended to the left
\* and to the right as far as the characters are equal (popular characters
\* are not junk, so they extend it too).
ExtendMatch(a, b, alo, ahi, blo, bhi, best) ==
  LET leftlim == Min(best.i - alo, best.j - blo)
      leftstops == {m \in 1..leftlim : a[best.i - m] # b[best.j - m]}
      left == IF leftstops = {} THEN leftlim ELSE SetMin(leftstops) - 1
      alast == best.i + best.size - 1
      blast == best.j + best.size - 1
      rightlim == Min(ahi - alast, bhi - blast)
      rightstops == {m \in 1..rightlim : a[alast + m] # b[blast + m]}
      right == IF rightstops = {} THEN rightlim ELSE SetMin(rightstops) - 1
  IN  [i |-> best.i - left, j |-> best.j - left, size |-> best.size + left + right]

FindLongestMatch(a, b, popular, alo, ahi, blo, bhi) ==
  ExtendMatch(a, b, alo, ahi, blo, bhi, LongestRun(a, b, popular, alo, ahi, blo, bhi))

\* SequenceMatcher.get_matching_blocks: total size of the matching blocks
RECURSIVE MatchedChars(_, _, _, _, _, _, _)
MatchedChars(a, b, popular, alo, ahi, blo, bhi) ==
  IF alo > ahi \/ blo > bhi THEN 0
  ELSE LET m == FindLongestMatch(a, b, popular, alo, ahi, blo, bhi)
       IN  IF m.size = 0 THEN 0
           ELSE m.size
                + MatchedChars(a, b, popular, alo, m.i - 1, blo, m.j - 1)
                + MatchedChars(a, b, popular, m.i + m.size, ahi, m.j + m.size, bhi)

\* SequenceMatcher(None, a, b).ratio(): 2.0 * matches / length, and 1.0 when
\* both strings are empty
Ratio(a, b) ==
  LET length == Len(a) + Len(b)
  IN  IF length = 0 THEN FloatFromInt(1)
      ELSE FloatDiv(FloatMul(FloatFromInt(2),
                             FloatFromInt(MatchedChars(a, b, Popular(b),
                                                       1, Len(a), 1, Len(b)))),
                    FloatFromInt(length))

\* title_similarity on the titles as they are, without lower() and strip()
title_similarity_raw(title1, title2) == Ratio(title1, title2)

title_similarity(title1, title2) ==
  LET t1 == Strip(Lower(title1))
      t2 == Strip(Lower(title2))
  IN  Ratio(t1, t2)

\* TITLE_SIMILARITY_THRESHOLD = 0.85: the float nearest to 85 / 100
TITLE_SIMILARITY_THRESHOLD == FloatDiv(FloatFromInt(85), FloatFromInt(100))

\* similarity >= similarity_threshold
SimilarityAtLeast(sim, threshold) == FloatLeq(threshold, sim)

(***************************************************************************)
(* utils.normalize_url.  A URL is text; urllib.parse splits it, decodes    *)
(* and encodes its query and joins the parts again.  Decoded query names   *)
(* and values are sequences of code points, since an escape can stand for  *)
(* any character.  An exception is the result ValueError.                  *)
(***************************************************************************)
Take(s, n) == SubSeq(s, 1, n)
Drop(s, n) == SubSeq(s, n + 1, Len(s))

StartsWith(s, prefix) ==
  /\ Len(s) >= Len(prefix)
  /\ \A k \in 1..Len(prefix) : s[k] = prefix[k]

\* str.find for a set of characters: the first position from `from` on that
\* holds one of them, 0 when there is none
Find(s, chars, from) ==
  LET hits == {k \in from..Len(s) : s[k] \in chars}
  IN  IF hits = {} THEN 0 ELSE SetMin(hits)

\* str.rfind: the last position that holds one of the characters, 0 for none
RFind(s, chars) ==
  LET hits == {k \in 1..Len(s) : s[k] \in chars}
  IN  IF hits = {} THEN 0 ELSE SetMax(hits)

\* str.split(sep)
RECURSIVE Split(_, _)
Split(s, sep) ==
  LET p == Find(s, {sep}, 1)
  IN  IF p = 0 THEN <<s>> ELSE <<Take(s, p - 1)>> \o Split(Drop(s, p), sep)

\* sep.join(parts)
RECURSIVE Join(_, _)
Join(parts, sep) ==
  IF Len(parts) = 0 THEN <<>>
  ELSE IF Len(parts) = 1 THEN parts[1]
  ELSE Join(SubSeq(parts, 1, Len(parts) \div 2), sep) \o sep
         \o Join(SubSeq(parts, Len(parts) \div 2 + 1, Len(parts)), sep)

\* the elements of a set of integers in increasing order
Sorted(S) ==
  [n \in 1..Cardinality(S) |-> CHOOSE k \in S : Cardinality({m \in S : m <= k}) = n]

\* string.ascii_letters
AsciiLetters ==
  { "a", "b", "c", "d", "e", "f", "g", "h", "i", "j", "k", "l", "m",
    "n", "o", "p", "q", "r", "s", "t", "u", "v", "w", "x", "y", "z",
    "A", "B", "C", "D", "E", "F", "G", "H", "I", "J", "K", "L", "M",
    "N", "O", "P", "Q", "R", "S", "T", "U", "V", "W", "X", "Y", "Z" }

\* urllib.parse.scheme_chars
SchemeChars == AsciiLetters \cup Digits \cup {"+", "-", "."}

\* urllib.parse.uses_params
uses_params ==
  { <<>>, <<"f", "t", "p">>, <<"h", "d", "l">>, <<"p", "r", "o", "s", "p", "e", "r", "o">>, <<"h", "t", "t", "p">>, <<"i", "m", "a", "p">>, <<"h", "t", "t", "p", "s">>,
    <<"s", "h", "t", "t", "p">>, <<"r", "t", "s", "p">>, <<"r", "t", "s", "p", "s">>, <<"r", "t", "s", "p", "u">>, <<"s", "i", "p">>, <<"s", "i", "p", "s">>, <<"m", "m", "s">>,
    <<"s", "f", "t", "p">>, <<"t", "e", "l">> }

\* urllib.parse.uses_netloc
uses_netloc ==
  { <<>>, <<"f", "t", "p">>, <<"h", "t", "t", "p">>, <<"g", "o", "p", "h", "e", "r">>, <<"n", "n", "t", "p">>, <<"t", "e", "l", "n", "e", "t">>, <<"i", "m", "a", "p">>,
    <<"w", "a", "i", "s">>, <<"f", "i", "l", "e">>, <<"m", "m", "s">>, <<"h", "t", "t", "p", "s">>, <<"s", "h", "t", "t", "p">>, <<"s", "n", "e", "w", "s">>,
    <<"p", "r", "o", "s", "p", "e", "r", "o">>, <<"r", "t", "s", "p">>, <<"r", "t", "s", "p", "s">>, <<"r", "t", "s", "p", "u">>, <<"r", "s", "y", "n", "c">>, <<"s", "v", "n">>,
    <<"s", "v", "n", "+", "s", "s", "h">>, <<"s", "f", "t", "p">>, <<"n", "f", "s">>, <<"g", "i", "t">>, <<"g", "i", "t", "+", "s", "s", "h">>, <<"w", "s">>, <<"w", "s", "s">> }

\* the characters urlsplit strips from the left of a URL: U+0000 to U+0020
C0ControlOrSpace == {c \in DOMAIN CodePointTable : CodePointTable[c] <= 32}

\* the characters urlsplit removes from a URL wherever they are
UnsafeUrlChars == {"\t", "\r", "\n"}

\* the value of a hexadecimal digit
HexTable ==
  ( "0" :> 0 @@ "1" :> 1 @@ "2" :> 2 @@ "3" :> 3 @@ "4" :> 4 @@ "5" :> 5 @@
    "6" :> 6 @@ "7" :> 7 @@ "8" :> 8 @@ "9" :> 9 @@
    "a" :> 10 @@ "b" :> 11 @@ "c" :> 12 @@ "d" :> 13 @@ "e" :> 14 @@ "f" :> 15 @@
    "A" :> 10 @@ "B" :> 11 @@ "C" :> 12 @@ "D" :> 13 @@ "E" :> 14 @@ "F" :> 15 )

IsHex(c) == c \in DOMAIN HexTable

HexDigits ==
  <<"0", "1", "2", "3", "4", "5", "6", "7", "8", "9", "A", "B", "C", "D", "E", "F">>

\* ipaddress.IPv4Address._parse_octet accepts the text
OctetOk(s) ==
  /\ Len(s) \in 1..3
  /\ \A k \in 1..Len(s) : s[k] \in Digits
  /\ s # <<"0">> => s[1] # "0"
  /\ LET d(k) == CodePointTable[s[k]] - 48
     IN  (IF Len(s) = 3 THEN 100 * d(1) + 10 * d(2) + d(3) ELSE 0) <= 255

\* ipaddress.IPv4Address accepts the text
IPv4Ok(s) ==
  LET octets == Split(s, ".")
  IN  /\ Len(octets) = 4
      /\ \A k \in 1..4 : OctetOk(octets[k])

\* ipaddress.IPv6Address._parse_hextet accepts the text
HextetOk(s) ==
  /\ Len(s) \in 1..4
  /\ \A k \in 1..Len(s) : IsHex(s[k])

\* ipaddress.IPv6Address._ip_int_from_string from the "::" on: parts are
\* the pieces between the ":" of the address, an IPv4 suffix already
\* replaced by two hextets
HextetsOk(parts) ==
  LET n == Len(parts)
      skips == {k \in 2..(n - 1) : Len(parts[k]) = 0}
      skip == CHOOSE k \in skips : TRUE
      hi == IF Len(parts[1]) = 0 THEN skip - 2 ELSE skip - 1
      lo == IF Len(parts[n]) = 0 THEN n - skip - 1 ELSE n - skip
  IN  /\ n <= 9
      /\ Cardinality(skips) <= 1
      /\ IF skips # {}
         THEN /\ Len(parts[1]) = 0 => hi = 0
              /\ Len(parts[n]) = 0 => lo = 0
              /\ 8 - (hi + lo) >= 1
              /\ \A k \in 1..hi : HextetOk(parts[k])
              /\ \A k \in (n - lo + 1)..n : HextetOk(parts[k])
         ELSE /\ n = 8
              /\ \A k \in 1..n : HextetOk(parts[k])

\* _ip_int_from_string accepts the address whose pieces between the ":" are
\* raw; an IPv4 suffix stands for two hextets
IPv6PiecesOk(raw) ==
  LET last == raw[Len(raw)]
      dotted == Find(last, {"."}, 1) > 0
  IN  /\ Len(raw) >= 3
      /\ dotted => IPv4Ok(last)
      /\ HextetsOk(IF dotted THEN Take(raw, Len(raw) - 1) \o <<<<"0">>, <<"0">>>>
                   ELSE raw)

\* ipaddress.IPv6Address accepts the text: an address, and after a "%" a
\* scope id that is not empty and holds no "%"
IPv6Ok(s) ==
  LET pct == Find(s, {"%"}, 1)
      scope == Drop(s, pct)
  IN  /\ pct = 0 \/ (Len(scope) > 0 /\ Find(scope, {"%"}, 1) = 0)
      /\ IPv6PiecesOk(Split(IF pct = 0 THEN s ELSE Take(s, pct - 1), ":"))

\* urllib.parse._check_bracketed_host passes: an IPvFuture literal
\* (v, hexadecimal digits, ".", something) or an IPv6 address
BracketedHostOk(hostname) ==
  IF StartsWith(hostname, <<"v">>)
  THEN LET dot == Find(hostname, {"."}, 1)
       IN  /\ dot > 2
           /\ \A k \in 2..(dot - 1) : IsHex(hostname[k])
           /\ Len(hostname) > dot
  ELSE IPv6Ok(hostname)

\* The netloc makes urlsplit raise ValueError: one bracket without the
\* other, or brackets around what is no IP literal.  (_checknetloc raises
\* for no character of the model: none of them holds "/", "?", "#", "@" or
\* ":" after NFKC normalization.)
NetlocRaises(netloc) ==
  LET open == Find(netloc, {"["}, 1)
      close == Find(netloc, {"]"}, 1)
      after == Drop(netloc, open)
      end == Find(after, {"]"}, 1)
      bracketed_host == IF end = 0 THEN after ELSE Take(after, end - 1)
  IN  \/ open > 0 /\ close = 0
      \/ close > 0 /\ open = 0
      \/ open > 0 /\ close > 0 /\ ~BracketedHostOk(bracketed_host)

\* urlsplit, first step: url.lstrip(_WHATWG_C0_CONTROL_OR_SPACE), and the
\* unsafe characters taken out
CleanUrl(url) ==
  LET kept == {k \in 1..Len(url) : url[k] \notin C0ControlOrSpace}
      safe(c) == c \notin UnsafeUrlChars
  IN  SelectSeq(IF kept = {} THEN <<>> ELSE Drop(url, SetMin(kept) - 1), safe)

\* the position of the ":" that ends the scheme of url, 0 when url starts
\* with no scheme
SchemeEnd(url) ==
  LET colon == Find(url, {":"}, 1)
  IN  IF /\ colon > 1
         /\ url[1] \in AsciiLetters
         /\ \A k \in 1..(colon - 1) : url[k] \in SchemeChars
      THEN colon
      ELSE 0

\* urlsplit, last step: fragment and query are split off what follows the
\* netloc, and the netloc is checked
SplitQuery(scheme, netloc, url) ==
  LET hash == Find(url, {"#"}, 1)
      nofrag == IF hash = 0 THEN url ELSE Take(url, hash - 1)
      mark == Find(nofrag, {"?"}, 1)
  IN  [ scheme |-> scheme, netloc |-> netloc,
        path |-> IF mark = 0 THEN nofrag ELSE Take(nofrag, mark - 1),
        query |-> IF mark = 0 THEN <<>> ELSE Drop(nofrag, mark),
        fragment |-> IF hash = 0 THEN <<>> ELSE Drop(url, hash),
        error |-> IF NetlocRaises(netloc) THEN "ValueError" ELSE "" ]

\* urlsplit, third step: _splitnetloc(url, 2) when url starts with "//"
SplitNetloc(scheme, url) ==
  LET has_netloc == StartsWith(url, <<"/", "/">>)
      found == Find(url, {"/", "?", "#"}, 3)
      delim == IF found = 0 THEN Len(url) + 1 ELSE found
  IN  SplitQuery(scheme,
                 IF has_netloc THEN SubSeq(url, 3, delim - 1) ELSE <<>>,
                 IF has_netloc THEN Drop(url, delim - 1) ELSE url)

\* urlsplit, second step: the scheme, in lower case, is split off
SplitScheme(url, colon) ==
  SplitNetloc(IF colon = 0 THEN <<>> ELSE Lower(Take(url, colon - 1)),
              Drop(url, colon))

SplitCleaned(url) == SplitScheme(url, SchemeEnd(url))

\* urllib.parse.urlsplit(url): the five parts, and the exception it raises
\* if any
urlsplit(url) == SplitCleaned(CleanUrl(url))

\* urllib.parse._splitparams on the path of parts: ";params" is split off
\* the last path segment for the schemes that use them
SplitParams(parts) ==
  LET path == parts.path
      slash == RFind(path, {"/"})
      semi == Find(path, {";"}, Max(slash, 1))
      split == parts.scheme \in uses_params /\ semi > 0
  IN  [ scheme |-> parts.scheme, netloc |-> parts.netloc,
        path |-> IF split THEN Take(path, semi - 1) ELSE path,
        params |-> IF split THEN Drop(path, semi) ELSE <<>>,
        query |-> parts.query, fragment |-> parts.fragment,
        error |-> parts.error ]

\* urllib.parse.urlparse(url)
urlparse(url) == SplitParams(urlsplit(url))

\* urllib.parse.urlunsplit((scheme, netloc, url, query, fragment))
urlunsplit(scheme, netloc, path, query, fragment) ==
  LET with_netloc ==
        \/ Len(netloc) > 0
        \/ /\ Len(scheme) > 0
           /\ scheme \in uses_netloc
           /\ ~StartsWith(path, <<"/", "/">>)
      rooted == IF Len(path) > 0 /\ path[1] # "/" THEN <<"/">> \o path ELSE path
      url1 == IF with_netloc THEN <<"/", "/">> \o netloc \o rooted ELSE path
      url2 == IF Len(scheme) > 0 THEN scheme \o <<":">> \o url1 ELSE url1
      url3 == IF Len(query) > 0 THEN url2 \o <<"?">> \o query ELSE url2
  IN  IF Len(fragment) > 0 THEN url3 \o <<"#">> \o fragment ELSE url3

\* urllib.parse.urlunparse((scheme, netloc, url, params, query, fragment))
urlunparse(scheme, netloc, path, params, query, fragment) ==
  urlunsplit(scheme, netloc,
             IF Len(params) > 0 THEN path \o <<";">> \o params ELSE path,
             query, fragment)

\* rstrip("/") taking one slash only
RStripSlashOnce(s) ==
  IF Len(s) > 0 /\ s[Len(s)] = "/" THEN SubSeq(s, 1, Len(s) - 1) ELSE s

\* str.rstrip("/")
RStripSlash(s) == Take(s, SetMax({0} \cup {k \in 1..Len(s) : s[k] # "/"}))

\* an escape %XX starts at s[k]
EscapeAt(s, k) ==
  /\ k >= 1
  /\ k + 2 <= Len(s)
  /\ s[k] = "%"
  /\ IsHex(s[k + 1])
  /\ IsHex(s[k + 2])

\* urllib.parse.unquote_to_bytes on the ASCII stretches of the text: an
\* escape gives its byte, another ASCII character its code; a character
\* outside ASCII stays what it is and is written as minus its code point.
UnquoteToBytes(s) ==
  LET starts == {k \in 1..Len(s) : ~EscapeAt(s, k - 1) /\ ~EscapeAt(s, k - 2)}
      at == Sorted(starts)
      unit(k) == IF EscapeAt(s, k)
                 THEN 16 * HexTable[s[k + 1]] + HexTable[s[k + 2]]
                 ELSE IF CodePointTable[s[k]] < 128 THEN CodePointTable[s[k]]
                 ELSE 0 - CodePointTable[s[k]]
  IN  [n \in 1..Len(at) |-> unit(at[n])]

\* the unit at position k is a byte between lo and hi
IsByteIn(units, k, lo, hi) ==
  k <= Len(units) /\ units[k] >= lo /\ units[k] <= hi

\* bytes.decode("utf-8", "replace") stretch by stretch: every ill-formed
\* sequence (its longest well-formed start) becomes U+FFFD
RECURSIVE Utf8Decode(_)
Utf8Decode(units) ==
  IF Len(units) = 0 THEN <<>>
  ELSE
    LET b == units[1]
        lo2 == IF b = 224 THEN 160 ELSE IF b = 240 THEN 144 ELSE 128
        hi2 == IF b = 237 THEN 159 ELSE IF b = 244 THEN 143 ELSE 191
        c(k) == units[k] - 128
    IN  IF b < 0 THEN <<0 - b>> \o Utf8Decode(Tail(units))
        ELSE IF b < 128 THEN <<b>> \o Utf8Decode(Tail(units))
        ELSE IF b \in 194..223
        THEN IF IsByteIn(units, 2, 128, 191)
             THEN <<(b - 192) * 64 + c(2)>> \o Utf8Decode(Drop(units, 2))
             ELSE <<65533>> \o Utf8Decode(Tail(units))
        ELSE IF b \in 224..239
        THEN IF ~IsByteIn(units, 2, lo2, hi2)
             THEN <<65533>> \o Utf8Decode(Tail(units))
             ELSE IF ~IsByteIn(units, 3, 128, 191)
             THEN <<65533>> \o Utf8Decode(Drop(units, 2))
             ELSE <<(b - 224) * 4096 + c(2) * 64 + c(3)>>
                  \o Utf8Decode(Drop(units, 3))
        ELSE IF b \in 240..244
        THEN IF ~IsByteIn(units, 2, lo2, hi2)
             THEN <<65533>> \o Utf8Decode(Tail(units))
             ELSE IF ~IsByteIn(units, 3, 128, 191)
             THEN <<65533>> \o Utf8Decode(Drop(units, 2))
             ELSE IF ~IsByteIn(units, 4, 128, 191)
             THEN <<65533>> \o Utf8Decode(Drop(units, 3))
             ELSE <<(b - 240) * 262144 + c(2) * 4096 + c(3) * 64 + c(4)>>
                  \o Utf8Decode(Drop(units, 4))
        ELSE <<65533>> \o Utf8Decode(Tail(units))

\* urllib.parse.unquote(s): the code points of the decoded text
Unquote(s) == Utf8Decode(UnquoteToBytes(s))

\* name.replace("+", " ") and unquote, as parse_qsl decodes a name or value
UnquotePlus(s) == Unquote([k \in 1..Len(s) |-> IF s[k] = "+" THEN " " ELSE s[k]])

\* str.encode("utf-8") of one code point
Utf8Encode(cp) ==
  IF cp < 128 THEN <<cp>>
  ELSE IF cp < 2048 THEN <<192 + (cp \div 64), 128 + (cp % 64)>>
  ELSE IF cp < 65536
  THEN <<224 + (cp \div 4096), 128 + ((cp \div 64) % 64), 128 + (cp % 64)>>
  ELSE <<240 + (cp \div 262144), 128 + ((cp \div 4096) % 64),
         128 + ((cp \div 64) % 64), 128 + (cp % 64)>>

\* urllib.parse._ALWAYS_SAFE
AlwaysSafe == AsciiLetters \cup Digits \cup {"_", ".", "-", "~"}

\* quote_plus of one byte: a safe character stays, a space becomes "+",
\* every other byte is written %XX
QuoteByte(b) ==
  LET same == {c \in AlwaysSafe : CodePointTable[c] = b}
  IN  IF b = 32 THEN <<"+">>
      ELSE IF same # {} THEN <<CHOOSE c \in same : TRUE>>
      ELSE <<"%", HexDigits[(b \div 16) + 1], HexDigits[(b % 16) + 1]>>

RECURSIVE QuoteBytes(_)
QuoteBytes(bytes) ==
  IF Len(bytes) = 0 THEN <<>>
  ELSE QuoteByte(bytes[1]) \o QuoteBytes(Tail(bytes))

\* urllib.parse.quote_plus of decoded text
RECURSIVE QuotePlus(_)
QuotePlus(s) ==
  IF Len(s) = 0 THEN <<>>
  ELSE QuoteBytes(Utf8Encode(s[1])) \o QuotePlus(Tail(s))

\* parse_qs: the fields between the "&" are split at their first "="; a
\* field that is empty, has no "=" or has a blank value is skipped
\* (keep_blank_values=False); names and values are decoded, and the values
\* are collected per name in a dict, whose keys keep the order of their
\* first occurrence.  The dict is the sequence of its entries [k, vs].
RECURSIVE DictAppend(_, _, _)
DictAppend(dict, k, v) ==
  IF Len(dict) = 0 THEN <<[k |-> k, vs |-> <<v>>]>>
  ELSE IF Head(dict).k = k
       THEN <<[k |-> k, vs |-> Append(Head(dict).vs, v)]>> \o Tail(dict)
  ELSE <<Head(dict)>> \o DictAppend(Tail(dict), k, v)

RECURSIVE ParseQsInto(_, _)
ParseQsInto(dict, fields) ==
  IF Len(fields) = 0 THEN dict
  ELSE LET name_value == Head(fields)
           eq == Find(name_value, {"="}, 1)
       IN  IF eq = 0 \/ eq = Len(name_value)
           THEN ParseQsInto(dict, Tail(fields))
           ELSE ParseQsInto(DictAppend(dict,
                                       UnquotePlus(Take(name_value, eq - 1)),
                                       UnquotePlus(Drop(name_value, eq))),
                            Tail(fields))

parse_qs(query) ==
  ParseQsInto(<<>>, IF Len(query) = 0 THEN <<>> ELSE Split(query, "&"))

tracking_params ==
  { <<"u", "t", "m", "_", "s", "o", "u", "r", "c", "e">>, <<"u", "t", "m", "_", "m", "e", "d", "i", "u", "m">>, <<"u", "t", "m", "_", "c", "a", "m", "p", "a", "i", "g", "n">>, <<"u", "t", "m", "_", "t", "e", "r", "m">>,
    <<"u", "t", "m", "_", "c", "o", "n", "t", "e", "n", "t">>, <<"r", "e", "f">>, <<"s", "o", "u", "r", "c", "e">>, <<"f", "b", "c", "l", "i", "d">>, <<"g", "c", "l", "i", "d">> }

\* k.lower() in tracking_params, for a decoded name k.  The names of
\* tracking_params are ASCII; the only characters outside ASCII whose lower()
\* holds an ASCII letter are U+212A (to "k", a letter of none of the names)
\* and U+0130 (to "i" and U+0307), so k.lower() is one of the names exactly
\* when k is ASCII and its letters, put in lower case, spell the name.
IsTrackingKey(k) ==
  LET lower(cp) == IF cp \in 65..90 THEN cp + 32 ELSE cp
  IN  \E name \in tracking_params :
         /\ Len(name) = Len(k)
         /\ \A n \in 1..Len(k) : lower(k[n]) = CodePointTable[name[n]]

\* {k: v for k, v in query_params.items() if k.lower() not in tracking_params}
FilterTracking(dict) ==
  LET keep(e) == ~IsTrackingKey(e.k)
  IN  SelectSeq(dict, keep)

\* The name=value fields of urlencode(filtered_params, doseq=True): one per
\* value, the dict's keys in order, each key's values in order, names and
\* values encoded.
RECURSIVE UrlEncodeFields(_)
UrlEncodeFields(dict) ==
  IF Len(dict) = 0 THEN <<>>
  ELSE LET e == Head(dict)
       IN  [n \in 1..Len(e.vs) |-> QuotePlus(e.k) \o <<"=">> \o QuotePlus(e.vs[n])]
           \o UrlEncodeFields(Tail(dict))

\* urlencode(filtered_params, doseq=True)
UrlEncode(dict) == Join(UrlEncodeFields(dict), <<"&">>)

\* StripWww with the prefix left in place
StripWwwNever(netloc) == netloc

\* The www prefix is tested on netloc as parsed, before it is lower-cased.
StripWww(netloc) ==
  IF StartsWith(netloc, <<"w", "w", "w", ".">>) THEN Drop(netloc, 4) ELSE netloc

\* what a call that raises ValueError gives instead of a result
ValueError == <<"ValueError">>

\* normalize_url after parsed = urlparse(url)
NormalizeParsed(parsed) ==
  IF parsed.error # "" THEN ValueError
  ELSE urlunparse(Lower(parsed.scheme),
                  Lower(StripWww(parsed.netloc)),
                  RStripSlash(parsed.path),
                  parsed.params,
                  UrlEncode(FilterTracking(parse_qs(parsed.query))),
                  <<>>)

normalize_url(url) == NormalizeParsed(urlparse(url))

(***************************************************************************)
(* utils.extract_numbers: re.findall of four patterns, one after the       *)
(* other, with re.IGNORECASE.  Positions are 1-based; a match is given by  *)
(* the position after its last character, 0 meaning no match.  Of the      *)
(* characters of the model \d matches the ten ASCII digits and [BMK] the   *)
(* six ASCII letters; \w matches WordChars.                                *)
(***************************************************************************)
IsWordChar(c) == c \in WordChars

\* [BMK] under re.IGNORECASE
IsBMK(c) == c \in {"B", "M", "K", "b", "m", "k"}

CharAt(s, i) == IF i >= 1 /\ i <= Len(s) THEN s[i] ELSE ""

\* the position after the longest run of characters of cls that starts at i
RunEnd(s, i, cls) ==
  LET stops == {k \in i..Len(s) : s[k] \notin cls}
  IN  IF stops = {} THEN Max(i, Len(s) + 1) ELSE SetMin(stops)

\* \$[\d,]+(?:\.\d+)?[BMK]?
MatchMoney(s, i) ==
  IF CharAt(s, i) # "$" THEN 0
  ELSE LET j == RunEnd(s, i + 1, Digits \cup {","})
           d == RunEnd(s, j + 1, Digits)
           k == IF CharAt(s, j) = "." /\ d > j + 1 THEN d ELSE j
       IN  IF j = i + 1 THEN 0
           ELSE IF IsBMK(CharAt(s, k)) THEN k + 1 ELSE k

\* [\d.]+[BMK]\b
MatchAbbrev(s, i) ==
  LET j == RunEnd(s, i, Digits \cup {"."})
  IN  IF j > i /\ IsBMK(CharAt(s, j)) /\ ~IsWordChar(CharAt(s, j + 1))
      THEN j + 1 ELSE 0

\* \d{4}
MatchYear(s, i) ==
  IF \A k \in i..(i + 3) : CharAt(s, k) \in Digits THEN i + 4 ELSE 0

\* \d+(?:\.\d+)?%
MatchPercent(s, i) ==
  LET j == RunEnd(s, i, Digits)
      d == RunEnd(s, j + 1, Digits)
  IN  IF j = i THEN 0
      ELSE IF CharAt(s, j) = "." /\ d > j + 1 /\ CharAt(s, d) = "%" THEN d + 1
      ELSE IF CharAt(s, j) = "%" THEN j + 1
      ELSE 0

MatchPattern(p, s, i) ==
  CASE p = 1 -> MatchMoney(s, i)
    [] p = 2 -> MatchAbbrev(s, i)
    [] p = 3 -> MatchYear(s, i)
    [] p = 4 -> MatchPercent(s, i)

\* re.findall: the non-overlapping matches, scanning from the left
RECURSIVE FindAll(_, _, _)
FindAll(p, s, i) ==
  LET starts == {k \in i..Len(s) : MatchPattern(p, s, k) # 0}
  IN  IF starts = {} THEN <<>>
      ELSE LET k == SetMin(starts)
               e == MatchPattern(p, s, k)
           IN  <<SubSeq(s, k, e - 1)>> \o FindAll(p, s, e)

extract_numbers(text) ==
  FindAll(1, text, 1) \o FindAll(2, text, 1) \o FindAll(3, text, 1) \o FindAll(4, text, 1)

(***************************************************************************)
(* config.SOURCE_CREDIBILITY and config.SCORING_KEYWORDS.                  *)
(***************************************************************************)
SOURCE_CREDIBILITY ==
  ( "OpenAI Blog" :> 20 @@ "Anthropic Blog" :> 20 @@ "DeepMind Blog" :> 20
    @@ "arXiv" :> 18 @@ "MIT Tech Review AI" :> 15 @@ "TechCrunch AI" :> 12
    @@ "The Verge AI" :> 10 @@ "Ars Technica AI" :> 10 @@ "Wired AI" :> 10
    @@ "Reddit r/MachineLearning" :> 10 @@ "Reddit r/artificial" :> 8
    @@ "Hacker News" :> 8 )

SCORING_KEYWORDS ==
  << <<"r", "e", "l", "e", "a", "s", "e">>,
     <<"l", "a", "u", "n", "c", "h">>,
     <<"b", "e", "n", "c", "h", "m", "a", "r", "k">>,
     <<"a", "c", "q", "u", "i", "s", "i", "t", "i", "o", "n">>,
     <<"p", "o", "l", "i", "c", "y">>,
     <<"c", "o", "m", "p", "u", "t", "e">>,
     <<"r", "o", "b", "o", "t">>,
     <<"A", "G", "I">>,
     <<"b", "r", "e", "a", "k", "t", "h", "r", "o", "u", "g", "h">>,
     <<"b", "i", "l", "l", "i", "o", "n">>,
     <<"m", "i", "l", "l", "i", "o", "n">>,
     <<"p", "a", "r", "t", "n", "e", "r", "s", "h", "i", "p">>,
     <<"r", "e", "g", "u", "l", "a", "t", "i", "o", "n">>,
     <<"s", "a", "f", "e", "t", "y">>,
     <<"a", "l", "i", "g", "n", "m", "e", "n", "t">> >>

\* dict.get(key, default)
DictGet(table, key, default) ==
  IF key \in DOMAIN table THEN table[key] ELSE default

\* Credibility with a default of 0
CredibilityDefaultZero(source) == DictGet(SOURCE_CREDIBILITY, source, 0)

\* Credibility with a default of 10, above the lowest value of the table
CredibilityDefaultTen(source) == DictGet(SOURCE_CREDIBILITY, source, 10)

\* SOURCE_CREDIBILITY.get(source, 5)
Credibility(source) == DictGet(SOURCE_CREDIBILITY, source, 5)

(***************************************************************************)
(* utils.hours_since and dedupe.score_item.  A datetime is the record      *)
(* [wall, aware, off]: the hour on its own clock, whether it carries a     *)
(* tzinfo, and the tzinfo's UTC offset in hours.  The datetimes of the     *)
(* model fall on whole hours.                                              *)
(***************************************************************************)
\* dt.replace(tzinfo=timezone.utc) when dt.tzinfo is None
AssumeUtc(dt) ==
  IF dt.aware THEN dt ELSE [wall |-> dt.wall, aware |-> TRUE, off |-> 0]

\* delta = reference - dt, in seconds
TimeDelta(dt, reference) ==
  LET d == AssumeUtc(dt)
      r == AssumeUtc(reference)
  IN  3600 * ((r.wall - r.off) - (d.wall - d.off))

\* delta.total_seconds() / 3600
hours_since(dt, reference) ==
  FloatDiv(FloatFromInt(TimeDelta(dt, reference)), FloatFromInt(3600))

\* max(0, x) for a float x: x when it is above 0
FloatMaxZero(x) == IF FloatLess(FloatZero, x) THEN x ELSE FloatZero

\* recency_score growing with age: 30 * (hours_old / lookback_hours)
RecencyGrowing(hours_old, lookback_hours) ==
  FloatMaxZero(FloatMul(FloatFromInt(30),
                        FloatDiv(hours_old, FloatFromInt(lookback_hours))))

\* recency_score clamped at 30: min(30, max(0, ...))
RecencyClamped(hours_old, lookback_hours) ==
  LET r == FloatMaxZero(
             FloatMul(FloatFromInt(30),
                      FloatSub(FloatFromInt(1),
                               FloatDiv(hours_old, FloatFromInt(lookback_hours)))))
  IN  IF FloatLess(FloatFromInt(30), r) THEN FloatFromInt(30) ELSE r

\* recency_score without the floor: 30 * (1 - hours_old / lookback_hours)
RecencyNoFloor(hours_old, lookback_hours) ==
  FloatMul(FloatFromInt(30),
           FloatSub(FloatFromInt(1),
                    FloatDiv(hours_old, FloatFromInt(lookback_hours))))

\* recency_score = max(0, 30 * (1 - hours_old / lookback_hours))
recency_score(hours_old, lookback_hours) ==
  FloatMaxZero(
    FloatMul(FloatFromInt(30),
             FloatSub(FloatFromInt(1),
                      FloatDiv(hours_old, FloatFromInt(lookback_hours)))))

\* min(10, len(numbers) * 3) if numbers, else nothing is added
NumbersScore(title, summary) ==
  LET text_to_check == title \o <<" ">> \o summary
      numbers == extract_numbers(text_to_check)
  IN  IF Len(numbers) > 0 THEN Min(10, Len(numbers) * 3) ELSE 0

\* sum(1 for kw in SCORING_KEYWORDS if kw.lower() in combined)
KeywordMatches(title, summary) ==
  LET combined == Lower(title) \o <<" ">> \o Lower(summary)
  IN  Cardinality({n \in 1..Len(SCORING_KEYWORDS) :
                     Contains(combined, Lower(SCORING_KEYWORDS[n]))})

\* min(15, keyword_matches * 3)
KeywordScore(title, summary) == Min(15, KeywordMatches(title, summary) * 3)

\* score = 0.0, then the four components added one after the other
SumOfComponents(recency, credibility, numbers, keywords) ==
  FloatAdd(FloatAdd(FloatAdd(FloatAdd(FloatZero, recency),
                             FloatFromInt(credibility)),
                    FloatFromInt(numbers)),
           FloatFromInt(keywords))

\* score_item with the sum clamped to 75, the sum of the four caps
score_item_clamped(item, reference_time, lookback_hours) ==
  LET hours_old == hours_since(item.published, reference_time)
      total == SumOfComponents(recency_score(hours_old, lookback_hours),
                               Credibility(item.source),
                               NumbersScore(item.title, item.summary),
                               KeywordScore(item.title, item.summary))
  IN  IF FloatLess(FloatFromInt(75), total) THEN FloatFromInt(75) ELSE total

score_item(item, reference_time, lookback_hours) ==
  LET hours_old == hours_since(item.published, reference_time)
  IN  SumOfComponents(recency_score(hours_old, lookback_hours),
                      Credibility(item.source),
                      NumbersScore(item.title, item.summary),
                      KeywordScore(item.title, item.summary))

(***************************************************************************)
(* The items the fetch collaborators hand to the core (ingest.NewsItem).   *)
(* The clock starts at hour 0; an item published h hours before that has   *)
(* wall = -h.                                                              *)
(***************************************************************************)
\* https://example.com/a
UrlA == <<"h", "t", "t", "p", "s", ":", "/", "/", "e", "x", "a", "m", "p", "l", "e", ".", "c", "o", "m", "/", "a">>

\* HTTPS://www.example.com/a/?utm_source=x#top : normalizes like UrlA
UrlATracked ==
  <<"H", "T", "T", "P", "S", ":", "/", "/", "w", "w", "w", ".", "e", "x", "a", "m", "p", "l", "e", ".", "c", "o", "m", "/", "a", "/", "?", "u", "t", "m", "_", "s", "o", "u", "r", "c", "e", "=", "x", "#", "t", "o", "p">>

\* https://example.com/b
UrlB == <<"h", "t", "t", "p", "s", ":", "/", "/", "e", "x", "a", "m", "p", "l", "e", ".", "c", "o", "m", "/", "b">>

\* https://example.com/b/ : normalizes like UrlB
UrlBSlash == <<"h", "t", "t", "p", "s", ":", "/", "/", "e", "x", "a", "m", "p", "l", "e", ".", "c", "o", "m", "/", "b", "/">>

\* https://example.com/c
UrlC == <<"h", "t", "t", "p", "s", ":", "/", "/", "e", "x", "a", "m", "p", "l", "e", ".", "c", "o", "m", "/", "c">>

\* https://example.com/d
UrlD == <<"h", "t", "t", "p", "s", ":", "/", "/", "e", "x", "a", "m", "p", "l", "e", ".", "c", "o", "m", "/", "d">>

\* https://example.com/e
UrlE == <<"h", "t", "t", "p", "s", ":", "/", "/", "e", "x", "a", "m", "p", "l", "e", ".", "c", "o", "m", "/", "e">>

\* http://[bad/x : a "[" without its "]", which urlparse refuses
UrlUnclosed == <<"h", "t", "t", "p", ":", "/", "/", "[", "b", "a", "d", "/", "x">>

Utc(hour) == [wall |-> hour, aware |-> TRUE, off |-> 0]

Naive(hour) == [wall |-> hour, aware |-> FALSE, off |-> 0]

\* NewsItem(title, url, source, published, summary): content "", authors [],
\* score 0.0
NewsItem(title, url, source, published, summary) ==
  [ title |-> title, url |-> url, source |-> source, published |-> published,
    summary |-> summary, content |-> <<>>, authors |-> <<>>, score |-> FloatZero ]

\* The titles "abc", "bcd" and "abcd": "abcd" is similar to both of the
\* others (ratio 6/7), which are not similar to each other (ratio 4/6).
\* "ABC " equals "abc" after lower() and strip().
ItemPool ==
  { NewsItem(<<"a","b","c">>, UrlA, "Hacker News", Utc(0), <<>>),
    NewsItem(<<"b","c","d">>, UrlB, "Hacker News", Utc(0), <<>>),
    NewsItem(<<"a","b","c","d">>, UrlC, "OpenAI Blog", Utc(-3), <<>>),
    NewsItem(<<"A","B","C"," ">>, UrlATracked, "OpenAI Blog", Utc(0), <<>>),
    NewsItem(<<"a","b","c">>, UrlD, "Unknown Blog", Naive(0), <<>>),
    NewsItem(<<"x","y","z">>, UrlBSlash, "Reddit r/artificial", Utc(-12),
             <<"A","G","I"," ","2","0","2","4">>) }

\* the lists of at most MaxItems items
ItemLists == UNION {[1..n -> ItemPool] : n \in 0..MaxItems}

\* A longer list: "abcd" replaces "abc" and moves behind "bcd"; a second
\* "abcd", the same as the first in everything but the URL, then finds "bcd"
\* as its first match and replaces it, so both "abcd" items survive.
\* And a list whose second item carries a URL that urlparse refuses.
ScenarioLists ==
  { << NewsItem(<<"a","b","c">>, UrlA, "Hacker News", Utc(0), <<>>),
       NewsItem(<<"b","c","d">>, UrlB, "Hacker News", Utc(0), <<>>),
       NewsItem(<<"a","b","c","d">>, UrlC, "OpenAI Blog", Utc(-3), <<>>),
       NewsItem(<<"a","b","c","d">>, UrlE, "OpenAI Blog", Utc(-3), <<>>) >>,
    << NewsItem(<<"a","b","c">>, UrlA, "Hacker News", Utc(0), <<>>),
       NewsItem(<<"x","y","z">>, UrlUnclosed, "Hacker News", Utc(0), <<>>) >> }

\* lookback_hours of the runs (24 for daily)
Lookbacks == {24}

\* similarity_threshold of the calls of deduplicate_items:
\* TITLE_SIMILARITY_THRESHOLD, 6/7 (the ratio of "abcd" and "abc") and 1.0
Thresholds ==
  { TITLE_SIMILARITY_THRESHOLD,
    FloatDiv(FloatFromInt(6), FloatFromInt(7)),
    FloatFromInt(1) }

Entries == {"process_items", "deduplicate_items", "score_and_rank_items"}

\* top_n of the calls: any int, the code does not check it
TopNs == -MaxDrop..MaxTopN

\* the hours the clock can show while a run lasts
ClockValues == {0, 3}

(***************************************************************************)
(* State.  heap holds the NewsItem objects; every list is a sequence of    *)
(* references (indices into heap), as Python lists hold references.        *)
(***************************************************************************)
VARIABLES
  heap,                 \* the NewsItem objects, score fields included
  input,                \* the caller's list
  entry,                \* the function the caller calls
  top_n,                \* its arguments (deduplicate_items takes no top_n: 0)
  lookback_hours,
  similarity_threshold,
  round,                \* 1 for the first call, 2 for the call after it
  first_ret,            \* what the first call returned
  first_heap,           \* the objects as the first call left them
  first_reference_time, \* the reference_time of the first call
  pc,                   \* position in the code
  items,                \* deduplicate_items: its parameter and locals
  seen_urls,
  url_unique,
  deduplicated,
  idx,                  \* index of the running for loop
  unique_items,         \* score_and_rank_items: its parameter and locals
  reference_time,
  sorted_items,
  top_items,
  ret,                  \* the value returned to the caller
  raised,               \* the exception that left the call, "" if none
  now,                  \* the clock, in hours
  upc,                  \* a direct call of a pure function: its position,
  arg1,                 \*   its arguments
  arg2,
  out1,                 \*   and its results
  out2,
  varied                \*   the ways arg2 was made to differ from arg1

pipeVars ==
  << heap, input, entry, top_n, lookback_hours, similarity_threshold, round,
     first_ret, first_heap, first_reference_time, pc, items, seen_urls, url_unique, deduplicated, idx,
     unique_items, reference_time, sorted_items, top_items, ret, raised, now >>

pureVars == << upc, arg1, arg2, out1, out2, varied >>

vars == << pipeVars, pureVars >>

callVars == << input, entry, top_n, lookback_hours, similarity_threshold >>

dedupVars == << items, seen_urls, url_unique, deduplicated >>

rankVars == << unique_items, reference_time, sorted_items, top_items >>

NoTime == Utc(0)

Refs(list) == {list[k] : k \in 1..Len(list)}

\* no direct call of a pure function is under way
PureIdle ==
  /\ upc = "off"
  /\ arg1 = <<>>
  /\ arg2 = <<>>
  /\ out1 = <<>>
  /\ out2 = <<>>
  /\ varied = {}

Init ==
  /\ PureIdle
  /\ heap \in ItemLists \cup ScenarioLists
  /\ input = [k \in 1..Len(heap) |-> k]
  /\ entry \in Entries
  /\ top_n \in IF entry = "deduplicate_items" THEN {0} ELSE TopNs
  /\ lookback_hours \in Lookbacks
  /\ similarity_threshold \in IF entry = "deduplicate_items" THEN Thresholds
                             ELSE {TITLE_SIMILARITY_THRESHOLD}
  /\ round = 1
  /\ first_ret = <<>>
  /\ first_heap = <<>>
  /\ first_reference_time = NoTime
  /\ pc = "call"
  /\ items = <<>>
  /\ seen_urls = {}
  /\ url_unique = <<>>
  /\ deduplicated = <<>>
  /\ idx = 0
  /\ unique_items = <<>>
  /\ reference_time = NoTime
  /\ sorted_items = <<>>
  /\ top_items = <<>>
  /\ ret = <<>>
  /\ raised = ""
  /\ now = 0

\* the list handed to the call of this round
CallArgument ==
  IF round = 2 /\ entry = "deduplicate_items" THEN first_ret ELSE input

\* The caller calls process_items or deduplicate_items.  process_items only
\* logs before it calls deduplicate_items(items, similarity_threshold).
CallDedupe ==
  /\ pc = "call"
  /\ entry \in {"process_items", "deduplicate_items"}
  /\ items' = CallArgument
  /\ pc' = "dedupe"
  /\ UNCHANGED << heap, callVars, pureVars, round, first_ret, first_heap, first_reference_time, seen_urls,
                  url_unique, deduplicated, idx, rankVars, ret, raised, now >>

\* The caller calls score_and_rank_items(items, top_n, lookback_hours).
CallRank ==
  /\ pc = "call"
  /\ entry = "score_and_rank_items"
  /\ unique_items' = CallArgument
  /\ pc' = "rank"
  /\ UNCHANGED << heap, callVars, pureVars, round, first_ret, first_heap, first_reference_time, dedupVars, idx,
                  reference_time, sorted_items, top_items, ret, raised, now >>

(***************************************************************************)
(* dedupe.deduplicate_items                                                *)
(***************************************************************************)
\* "return <list>" of deduplicate_items: to the caller, or into
\* process_items, which hands the list to score_and_rank_items.
DedupeReturns(list) ==
  IF entry = "deduplicate_items"
  THEN /\ ret' = list
       /\ pc' = "done"
       /\ UNCHANGED unique_items
  ELSE /\ unique_items' = list
       /\ pc' = "rank"
       /\ UNCHANGED ret

\* if not items: return []
DedupeEmpty ==
  /\ pc = "dedupe"
  /\ items = <<>>
  /\ DedupeReturns(<<>>)
  /\ UNCHANGED << heap, callVars, pureVars, round, first_ret, first_heap, first_reference_time, dedupVars, idx,
                  reference_time, sorted_items, top_items, raised, now >>

\* seen_urls = set(); url_unique = []
UrlPassStart ==
  /\ pc = "dedupe"
  /\ items # <<>>
  /\ seen_urls' = {}
  /\ url_unique' = <<>>
  /\ idx' = 1
  /\ pc' = "url_pass"
  /\ UNCHANGED << heap, callVars, pureVars, round, first_ret, first_heap, first_reference_time, items,
                  deduplicated, rankVars, ret, raised, now >>

\* normalize_url raised: the exception leaves deduplicate_items, and
\* process_items, which catch nothing
UrlPassRaises ==
  /\ raised' = "ValueError"
  /\ pc' = "raised"
  /\ UNCHANGED << seen_urls, url_unique, idx >>

\* UrlPassStep without the seen_urls test: every item is appended
UrlPassStepKeepsAll ==
  /\ pc = "url_pass"
  /\ idx <= Len(items)
  /\ LET item == items[idx]
         normalized == normalize_url(heap[item].url)
     IN  IF normalized = ValueError THEN UrlPassRaises
         ELSE /\ seen_urls' = seen_urls \cup {normalized}
              /\ url_unique' = Append(url_unique, item)
              /\ idx' = idx + 1
              /\ UNCHANGED << raised, pc >>
  /\ UNCHANGED << heap, callVars, pureVars, round, first_ret, first_heap, first_reference_time, items,
                  deduplicated, rankVars, ret, now >>

\* UrlPassStep comparing credibilities: an item whose normalized URL was seen
\* takes the place of the kept item with that URL when it is more credible
UrlPassStepPrefersCredible ==
  /\ pc = "url_pass"
  /\ idx <= Len(items)
  /\ LET item == items[idx]
         normalized == normalize_url(heap[item].url)
         more(k) == /\ normalize_url(heap[url_unique[k]].url) = normalized
                    /\ Credibility(heap[item].source)
                         > Credibility(heap[url_unique[k]].source)
     IN  IF normalized = ValueError THEN UrlPassRaises
         ELSE /\ IF normalized \notin seen_urls
                 THEN /\ seen_urls' = seen_urls \cup {normalized}
                      /\ url_unique' = Append(url_unique, item)
                 ELSE /\ url_unique' = [k \in 1..Len(url_unique) |->
                                          IF more(k) THEN item ELSE url_unique[k]]
                      /\ UNCHANGED seen_urls
              /\ idx' = idx + 1
              /\ UNCHANGED << raised, pc >>
  /\ UNCHANGED << heap, callVars, pureVars, round, first_ret, first_heap, first_reference_time, items,
                  deduplicated, rankVars, ret, now >>

\* one turn of "for item in items" of the first pass; urlparse, which
\* normalize_url calls, raises ValueError on a URL it refuses
UrlPassStep ==
  /\ pc = "url_pass"
  /\ idx <= Len(items)
  /\ LET item == items[idx]
         normalized == normalize_url(heap[item].url)
     IN  IF normalized = ValueError THEN UrlPassRaises
         ELSE /\ IF normalized \notin seen_urls
                 THEN /\ seen_urls' = seen_urls \cup {normalized}
                      /\ url_unique' = Append(url_unique, item)
                 ELSE UNCHANGED << seen_urls, url_unique >>
              /\ idx' = idx + 1
              /\ UNCHANGED << raised, pc >>
  /\ UNCHANGED << heap, callVars, pureVars, round, first_ret, first_heap, first_reference_time, items,
                  deduplicated, rankVars, ret, now >>

\* deduplicated = []
TitlePassStart ==
  /\ pc = "url_pass"
  /\ idx > Len(items)
  /\ deduplicated' = <<>>
  /\ idx' = 1
  /\ pc' = "title_pass"
  /\ UNCHANGED << heap, callVars, pureVars, round, first_ret, first_heap, first_reference_time, items, seen_urls,
                  url_unique, rankVars, ret, raised, now >>

\* FirstMatch going on to the last entry that matches: the loop without break
LastMatch(objs, list, item, threshold) ==
  LET hits == {j \in 1..Len(list) :
                 SimilarityAtLeast(title_similarity(objs[item].title,
                                                    objs[list[j]].title),
                                   threshold)}
  IN  IF hits = {} THEN 0 ELSE CHOOSE j \in hits : \A m \in hits : j >= m

\* The position in list of the first entry whose title is similar to item's,
\* 0 when there is none: "for existing in deduplicated" up to its break.
FirstMatch(objs, list, item, threshold) ==
  LET hits == {j \in 1..Len(list) :
                 SimilarityAtLeast(title_similarity(objs[item].title,
                                                    objs[list[j]].title),
                                   threshold)}
  IN  IF hits = {} THEN 0 ELSE CHOOSE j \in hits : \A m \in hits : j <= m

\* ListRemove dropping the last element, as list.pop() would
ListRemoveLast(objs, list, x) == SubSeq(list, 1, Len(list) - 1)

\* list.remove(x): drops the first element equal to x; NewsItem is a
\* dataclass, so equal means equal in every field.
ListRemove(objs, list, x) ==
  LET j == CHOOSE k \in 1..Len(list) :
              /\ objs[list[k]] = objs[x]
              /\ \A m \in 1..(k - 1) : objs[list[m]] # objs[x]
  IN  SubSeq(list, 1, j - 1) \o SubSeq(list, j + 1, Len(list))

\* TitlePassBody with the comparison turned round: the less credible new item
\* replaces the entry it matched
TitlePassBodyLowerWins(objs, list, item, threshold) ==
  LET j == FirstMatch(objs, list, item, threshold)
  IN  IF j = 0 THEN Append(list, item)
      ELSE IF Credibility(objs[item].source) < Credibility(objs[list[j]].source)
           THEN Append(ListRemove(objs, list, list[j]), item)
           ELSE list

\* TitlePassBody appending the more credible new item without removing the
\* entry it matched
TitlePassBodyKeepsBoth(objs, list, item, threshold) ==
  LET j == FirstMatch(objs, list, item, threshold)
  IN  IF j = 0 THEN Append(list, item)
      ELSE IF Credibility(objs[item].source) > Credibility(objs[list[j]].source)
           THEN Append(list, item)
           ELSE list

\* TitlePassBody putting an item that matches nothing at the front of the list
TitlePassBodyPrepends(objs, list, item, threshold) ==
  LET j == FirstMatch(objs, list, item, threshold)
  IN  IF j = 0 THEN <<item>> \o list
      ELSE IF Credibility(objs[item].source) > Credibility(objs[list[j]].source)
           THEN Append(ListRemove(objs, list, list[j]), item)
           ELSE list

\* TitlePassBody putting the new item at the position of the entry it replaces
TitlePassBodyInPlace(objs, list, item, threshold) ==
  LET j == FirstMatch(objs, list, item, threshold)
  IN  IF j = 0 THEN Append(list, item)
      ELSE IF Credibility(objs[item].source) > Credibility(objs[list[j]].source)
           THEN [list EXCEPT ![j] = item]
           ELSE list

\* TitlePassBody replacing the entry also when the credibilities are equal
TitlePassBodyGeq(objs, list, item, threshold) ==
  LET j == FirstMatch(objs, list, item, threshold)
  IN  IF j = 0 THEN Append(list, item)
      ELSE LET existing == list[j]
           IN  IF Credibility(objs[item].source) >= Credibility(objs[existing].source)
               THEN Append(ListRemove(objs, list, existing), item)
               ELSE list

\* The body of "for item in url_unique" for one item: the new deduplicated.
TitlePassBody(objs, list, item, threshold) ==
  LET j == FirstMatch(objs, list, item, threshold)
  IN  IF j = 0 THEN Append(list, item)
      ELSE LET existing == list[j]
               item_cred == Credibility(objs[item].source)
               existing_cred == Credibility(objs[existing].source)
           IN  IF item_cred > existing_cred
               THEN Append(ListRemove(objs, list, existing), item)
               ELSE list

\* one turn of "for item in url_unique" of the second pass
TitlePassStep ==
  /\ pc = "title_pass"
  /\ idx <= Len(url_unique)
  /\ deduplicated' =
       TitlePassBody(heap, deduplicated, url_unique[idx], similarity_threshold)
  /\ idx' = idx + 1
  /\ UNCHANGED << heap, callVars, pureVars, round, first_ret, first_heap, first_reference_time, items, seen_urls,
                  url_unique, rankVars, ret, raised, pc, now >>

\* return deduplicated
DedupeDone ==
  /\ pc = "title_pass"
  /\ idx > Len(url_unique)
  /\ DedupeReturns(deduplicated)
  /\ UNCHANGED << heap, callVars, pureVars, round, first_ret, first_heap, first_reference_time, dedupVars, idx,
                  reference_time, sorted_items, top_items, raised, now >>

(***************************************************************************)
(* dedupe.score_and_rank_items                                             *)
(***************************************************************************)
\* reference_time = datetime.now(timezone.utc)
ReadClock ==
  /\ pc = "rank"
  /\ reference_time' = Utc(now)
  /\ idx' = 1
  /\ pc' = "score"
  /\ UNCHANGED << heap, callVars, pureVars, round, first_ret, first_heap, first_reference_time, dedupVars,
                  unique_items, sorted_items, top_items, ret, raised, now >>

\* ScoreStep computing the score without storing it in the item
ScoreStepKeepsScore ==
  /\ pc = "score"
  /\ idx <= Len(unique_items)
  /\ idx' = idx + 1
  /\ UNCHANGED << heap, callVars, pureVars, round, first_ret, first_heap, first_reference_time, dedupVars,
                  rankVars, ret, raised, pc, now >>

\* ScoreStep reading the clock anew for every item
ScoreStepReadsClock ==
  /\ pc = "score"
  /\ idx <= Len(unique_items)
  /\ LET item == unique_items[idx]
     IN  heap' = [heap EXCEPT
                    ![item].score = score_item(heap[item], Utc(now),
                                               lookback_hours)]
  /\ idx' = idx + 1
  /\ UNCHANGED << callVars, pureVars, round, first_ret, first_heap, first_reference_time, dedupVars, rankVars,
                  ret, raised, pc, now >>

\* ScoreStep adding to the score the item holds: item.score += score_item(...)
ScoreStepAdds ==
  /\ pc = "score"
  /\ idx <= Len(unique_items)
  /\ LET item == unique_items[idx]
         old == heap[item].score
         new == score_item(heap[item], reference_time, lookback_hours)
     IN  heap' = [heap EXCEPT ![item].score = FloatAdd(old, new)]
  /\ idx' = idx + 1
  /\ UNCHANGED << callVars, pureVars, round, first_ret, first_heap, first_reference_time, dedupVars, rankVars,
                  ret, raised, pc, now >>

\* one turn of "for item in items": item.score = score_item(...)
ScoreStep ==
  /\ pc = "score"
  /\ idx <= Len(unique_items)
  /\ LET item == unique_items[idx]
     IN  heap' = [heap EXCEPT
                    ![item].score = score_item(heap[item], reference_time,
                                               lookback_hours)]
  /\ idx' = idx + 1
  /\ UNCHANGED << callVars, pureVars, round, first_ret, first_heap, first_reference_time, dedupVars, rankVars,
                  ret, raised, pc, now >>

\* SortedByScore leaving the list as it is
SortedByScoreNot(objs, list) == list

\* SortedByScore with items of equal score in the reverse of the order they
\* have in list, as sorting ascending and reversing the result would give
SortedByScoreTiesReversed(objs, list) ==
  LET before(m, k) ==
        \/ FloatLess(objs[list[k]].score, objs[list[m]].score)
        \/ objs[list[k]].score = objs[list[m]].score /\ m > k
      rank(k) == Cardinality({m \in 1..Len(list) : before(m, k)}) + 1
  IN  [r \in 1..Len(list) |-> list[CHOOSE k \in 1..Len(list) : rank(k) = r]]

\* sorted(items, key=lambda x: x.score, reverse=True): stable, so items of
\* equal score keep the order they have in list.
SortedByScore(objs, list) ==
  LET before(m, k) ==
        \/ FloatLess(objs[list[k]].score, objs[list[m]].score)
        \/ objs[list[k]].score = objs[list[m]].score /\ m < k
      rank(k) == Cardinality({m \in 1..Len(list) : before(m, k)}) + 1
  IN  [r \in 1..Len(list) |-> list[CHOOSE k \in 1..Len(list) : rank(k) = r]]

\* TopSlice taking the last n elements: sorted_items[-top_n:]
TopSliceTail(list, n) ==
  SubSeq(list, Len(list) - Min(n, Len(list)) + 1, Len(list))

\* sorted_items[:top_n]: the first top_n elements, and for a negative top_n
\* all but the last -top_n
TopSlice(list, n) ==
  IF n >= 0 THEN SubSeq(list, 1, Min(n, Len(list)))
  ELSE SubSeq(list, 1, Max(0, Len(list) + n))

\* SortAndSlice with items.sort(...) in place of sorted(items, ...): the list
\* score_and_rank_items was handed is reordered, which is the caller's own
\* list when the caller called score_and_rank_items
SortAndSliceInPlace ==
  /\ pc = "score"
  /\ idx > Len(unique_items)
  /\ sorted_items' = SortedByScore(heap, unique_items)
  /\ unique_items' = sorted_items'
  /\ input' = IF entry = "score_and_rank_items" THEN sorted_items' ELSE input
  /\ top_items' = TopSlice(sorted_items', top_n)
  /\ pc' = "log"
  /\ UNCHANGED << heap, entry, top_n, lookback_hours, similarity_threshold, pureVars,
                  round, first_ret, first_heap, first_reference_time, dedupVars, idx, reference_time, ret,
                  raised, now >>

\* sorted_items = sorted(...); top_items = sorted_items[:top_n]
SortAndSlice ==
  /\ pc = "score"
  /\ idx > Len(unique_items)
  /\ sorted_items' = SortedByScore(heap, unique_items)
  /\ top_items' = TopSlice(sorted_items', top_n)
  /\ pc' = "log"
  /\ UNCHANGED << heap, callVars, pureVars, round, first_ret, first_heap, first_reference_time, dedupVars, idx,
                  unique_items, reference_time, ret, raised, now >>

\* logger.info(f"... {top_items[-1].score:.1f} - {top_items[0].score:.1f}"):
\* the f-string is built before logging looks at the level, and indexing an
\* empty list raises IndexError, which nothing catches.
LogRaises ==
  /\ pc = "log"
  /\ top_items = <<>>
  /\ raised' = "IndexError"
  /\ pc' = "raised"
  /\ UNCHANGED << heap, callVars, pureVars, round, first_ret, first_heap, first_reference_time, dedupVars, idx,
                  rankVars, ret, now >>

\* the log line, then "return top_items" (process_items returns it as it is)
RankReturn ==
  /\ pc = "log"
  /\ top_items # <<>>
  /\ ret' = top_items
  /\ pc' = "done"
  /\ UNCHANGED << heap, callVars, pureVars, round, first_ret, first_heap, first_reference_time, dedupVars, idx,
                  rankVars, raised, now >>

(***************************************************************************)
(* The environment: the clock, and a caller that calls once more.          *)
(***************************************************************************)
\* time passes while score_and_rank_items runs
Tick ==
  /\ pc \in {"rank", "score"}
  /\ \E later \in ClockValues :
        /\ later > now
        /\ now' = later
  /\ UNCHANGED << heap, callVars, pureVars, round, first_ret, first_heap, first_reference_time, pc, dedupVars,
                  idx, rankVars, ret, raised >>

\* After the first call has returned the caller calls the same function
\* again: deduplicate_items on the list it returned, the other two on the
\* caller's own list.  Locals start afresh.
CallAgain ==
  /\ pc = "done"
  /\ round = 1
  /\ round' = 2
  /\ first_ret' = ret
  /\ first_heap' = heap
  /\ first_reference_time' = reference_time
  /\ pc' = "call"
  /\ items' = <<>>
  /\ seen_urls' = {}
  /\ url_unique' = <<>>
  /\ deduplicated' = <<>>
  /\ idx' = 0
  /\ unique_items' = <<>>
  /\ reference_time' = NoTime
  /\ sorted_items' = <<>>
  /\ top_items' = <<>>
  /\ ret' = <<>>
  /\ UNCHANGED << heap, callVars, pureVars, raised, now >>

Next ==
  \/ CallDedupe
  \/ CallRank
  \/ DedupeEmpty
  \/ UrlPassStart
  \/ UrlPassStep
  \/ TitlePassStart
  \/ TitlePassStep
  \/ DedupeDone
  \/ ReadClock
  \/ ScoreStep
  \/ SortAndSlice
  \/ LogRaises
  \/ RankReturn
  \/ Tick
  \/ CallAgain

Spec == Init /\ [][Next]_vars

(***************************************************************************)
(* Direct calls of utils.normalize_url: on one URL, on its own result, and *)
(* on two URLs that differ only in scheme case, a leading "www.", tracking *)
(* parameters or a trailing slash.                                         *)
(***************************************************************************)
\* https and Http; tel, whose paths take parameters and which writes no
\* empty netloc; foo, whose paths take no parameters
Schemes == {<<"h", "t", "t", "p", "s">>, <<"H", "t", "t", "p">>, <<"t", "e", "l">>, <<"f", "o", "o">>}

\* the spellings of a scheme
SchemeSpellings ==
  { <<"h", "t", "t", "p", "s">>, <<"H", "T", "T", "P", "S">>, <<"H", "t", "t", "p">>, <<"h", "t", "t", "p">>,
    <<"t", "e", "l">>, <<"T", "E", "L">>, <<"f", "o", "o">>, <<"F", "o", "o">> }

\* example.com, www.example.com, www.www.example.com, WWW.Example.com,
\* user@example.com and user@www.example.com with user information before
\* the host, the empty netloc, "www." alone, and [bad, a "[" without its
\* "]", which urlparse refuses
Netlocs ==
  { <<"e", "x", "a", "m", "p", "l", "e", ".", "c", "o", "m">>,
    <<"w", "w", "w", ".", "e", "x", "a", "m", "p", "l", "e", ".", "c", "o", "m">>,
    <<"w", "w", "w", ".", "w", "w", "w", ".", "e", "x", "a", "m", "p", "l", "e", ".", "c", "o", "m">>,
    <<"W", "W", "W", ".", "E", "x", "a", "m", "p", "l", "e", ".", "c", "o", "m">>,
    <<"u", "s", "e", "r", "@", "e", "x", "a", "m", "p", "l", "e", ".", "c", "o", "m">>,
    <<"u", "s", "e", "r", "@", "w", "w", "w", ".", "e", "x", "a", "m", "p", "l", "e", ".", "c", "o", "m">>,
    <<>>,
    <<"w", "w", "w", ".">>,
    <<"[", "b", "a", "d">> }

\* "", /a, /a/, /a//; /a;p, /a;, /a;/, /;p, /;p/, /a/;p, /a/;p/ and
\* /a/;x/;p with a ";" in the path; //X/a, which reads as netloc X and path
\* /a when nothing stands before it
Paths ==
  { <<>>, <<"/", "a">>, <<"/", "a", "/">>, <<"/", "a", "/", "/">>,
    <<"/", "a", ";", "p">>, <<"/", "a", ";">>, <<"/", "a", ";", "/">>, <<"/", ";", "p">>, <<"/", ";", "p", "/">>,
    <<"/", "a", "/", ";", "p">>, <<"/", "a", "/", ";", "p", "/">>, <<"/", "a", "/", ";", "x", "/", ";", "p">>,
    <<"/", "/", "X", "/", "a">> }

\* a=1, a=2, b=1, b= (blank), c=x%20y, Ref=1, utm_source=2, and %72ef=1,
\* whose name is "ref" once decoded
QueryFields ==
  { <<"a", "=", "1">>,
    <<"a", "=", "2">>,
    <<"b", "=", "1">>,
    <<"b", "=">>,
    <<"c", "=", "x", "%", "2", "0", "y">>,
    <<"R", "e", "f", "=", "1">>,
    <<"u", "t", "m", "_", "s", "o", "u", "r", "c", "e", "=", "2">>,
    <<"%", "7", "2", "e", "f", "=", "1">> }

\* the tracking fields a variant adds: utm_medium=x, FBCLID=1, ref= (blank)
TrackingFields ==
  { <<"u", "t", "m", "_", "m", "e", "d", "i", "u", "m", "=", "x">>,
    <<"F", "B", "C", "L", "I", "D", "=", "1">>,
    <<"r", "e", "f", "=">> }

Queries == UNION {[1..n -> QueryFields] : n \in 0..MaxQuery}

\* The parts a URL is written from: scheme, netloc, path, the fields of the
\* query and fragment.  Every query on one address; every https address with
\* no query, a kept field, or a tracking field and a fragment; the addresses
\* of the other schemes.
UrlInputs ==
  { [scheme |-> <<"h", "t", "t", "p", "s">>, netloc |-> <<"e", "x", "a", "m", "p", "l", "e", ".", "c", "o", "m">>, path |-> <<"/", "a">>,
     query |-> q, fragment |-> <<>>] : q \in Queries }
  \cup
  { [scheme |-> u[1], netloc |-> u[2], path |-> u[3], query |-> u[4][1],
     fragment |-> u[4][2]] :
      u \in {<<"h", "t", "t", "p", "s">>, <<"H", "t", "t", "p">>} \X Netlocs \X Paths
            \X { <<<<>>, <<>>>>,
                  <<<<<<"a", "=", "1">>>>, <<>>>>,
                  <<<<<<"R", "e", "f", "=", "1">>>>, <<"t", "o", "p">>>> } }
  \cup
  { [scheme |-> u[1], netloc |-> u[2], path |-> u[3], query |-> <<>>,
     fragment |-> <<>>] :
      u \in (Schemes \ {<<"h", "t", "t", "p", "s">>, <<"H", "t", "t", "p">>})
            \X {<<"e", "x", "a", "m", "p", "l", "e", ".", "c", "o", "m">>, <<>>, <<"w", "w", "w", ".">>} \X Paths }

\* the URL written from its parts: scheme://netloc/path?field&field#fragment
UrlText(parts) ==
  parts.scheme \o <<":", "/", "/">> \o parts.netloc \o parts.path
    \o (IF parts.query = <<>> THEN <<>>
        ELSE <<"?">> \o Join(parts.query, <<"&">>))
    \o (IF parts.fragment = <<>> THEN <<>> ELSE <<"#">> \o parts.fragment)

PipeIdle ==
  /\ heap = <<>>
  /\ input = <<>>
  /\ entry = ""
  /\ top_n = 0
  /\ lookback_hours = 0
  /\ similarity_threshold = TITLE_SIMILARITY_THRESHOLD
  /\ round = 0
  /\ first_ret = <<>>
  /\ first_heap = <<>>
  /\ first_reference_time = NoTime
  /\ pc = "off"
  /\ items = <<>>
  /\ seen_urls = {}
  /\ url_unique = <<>>
  /\ deduplicated = <<>>
  /\ idx = 0
  /\ unique_items = <<>>
  /\ reference_time = NoTime
  /\ sorted_items = <<>>
  /\ top_items = <<>>
  /\ ret = <<>>
  /\ raised = ""
  /\ now = 0

InitUrl ==
  /\ PipeIdle
  /\ upc = "start"
  /\ arg1 \in UrlInputs
  /\ arg2 = arg1
  /\ out1 = <<>>
  /\ out2 = <<>>
  /\ varied = {}

\* one more difference between arg2 and arg1
Vary(kind, url) ==
  /\ upc \in {"start", "varied"}
  /\ kind \notin varied
  /\ varied' = varied \cup {kind}
  /\ arg2' = url
  /\ upc' = "varied"
  /\ UNCHANGED << pipeVars, arg1, out1, out2 >>

\* the scheme in another letter case
VaryScheme ==
  \E sp \in SchemeSpellings :
     /\ sp # arg2.scheme
     /\ Lower(sp) = Lower(arg2.scheme)
     /\ Vary("scheme", [arg2 EXCEPT !.scheme = sp])

\* "www." put before the host, which follows the last "@" of the netloc
VaryWww ==
  \E prefix \in {<<"w", "w", "w", ".">>} :
     /\ Len(arg2.netloc) > RFind(arg2.netloc, {"@"})
     /\ Vary("www", [arg2 EXCEPT !.netloc =
                       Take(@, RFind(@, {"@"})) \o prefix
                         \o Drop(@, RFind(@, {"@"}))])

\* a tracking parameter put anywhere into the query
VaryTracking ==
  \E f \in TrackingFields, at \in 0..Len(arg2.query) :
     Vary("tracking",
          [arg2 EXCEPT !.query = SubSeq(@, 1, at) \o <<f>>
                                  \o SubSeq(@, at + 1, Len(@))])

\* "/" put after the path
VarySlash ==
  \E slash \in {"/"} :
     Vary("slash", [arg2 EXCEPT !.path = Append(@, slash)])

\* normalize_url of the URL of arg1 and of the URL of arg2
NormalizeBoth ==
  /\ upc = "varied"
  /\ out1' = normalize_url(UrlText(arg1))
  /\ out2' = normalize_url(UrlText(arg2))
  /\ upc' = "compared"
  /\ UNCHANGED << pipeVars, arg1, arg2, varied >>

\* normalize_url of the URL of arg1
NormalizeOnce ==
  /\ upc = "start"
  /\ out1' = normalize_url(UrlText(arg1))
  /\ upc' = "once"
  /\ UNCHANGED << pipeVars, arg1, arg2, out2, varied >>

\* normalize_url of the result, when the first call returned one
NormalizeAgain ==
  /\ upc = "once"
  /\ out1 # ValueError
  /\ out2' = normalize_url(out1)
  /\ upc' = "twice"
  /\ UNCHANGED << pipeVars, arg1, arg2, out1, varied >>

NextUrl ==
  \/ VaryScheme
  \/ VaryWww
  \/ VaryTracking
  \/ VarySlash
  \/ NormalizeBoth
  \/ NormalizeOnce
  \/ NormalizeAgain

SpecUrl == InitUrl /\ [][NextUrl]_vars

(***************************************************************************)
(* Direct calls of dedupe.score_item(item, reference_time, lookback_hours).*)
(***************************************************************************)
\* "OpenAI launches breakthrough AGI benchmark", "Tech company releases update",
\* "OpenAI raises $10B in funding round", "Some company did something"
ScoreTitles ==
  { <<"O", "p", "e", "n", "A", "I", " ", "l", "a", "u", "n", "c", "h", "e", "s", " ", "b", "r", "e", "a", "k", "t", "h", "r", "o", "u", "g", "h", " ", "A", "G", "I", " ", "b", "e", "n", "c", "h", "m", "a", "r", "k">>,
    <<"T", "e", "c", "h", " ", "c", "o", "m", "p", "a", "n", "y", " ", "r", "e", "l", "e", "a", "s", "e", "s", " ", "u", "p", "d", "a", "t", "e">>,
    <<"O", "p", "e", "n", "A", "I", " ", "r", "a", "i", "s", "e", "s", " ", "$", "1", "0", "B", " ", "i", "n", " ", "f", "u", "n", "d", "i", "n", "g", " ", "r", "o", "u", "n", "d">>,
    <<"S", "o", "m", "e", " ", "c", "o", "m", "p", "a", "n", "y", " ", "d", "i", "d", " ", "s", "o", "m", "e", "t", "h", "i", "n", "g">> }

\* "", "$10B 2024 50%", "Raised 5M in 2023",
\* "billion-dollar robot safety policy", "$10B 2024 50% robot safety"
ScoreSummaries ==
  { <<>>,
    <<"$", "1", "0", "B", " ", "2", "0", "2", "4", " ", "5", "0", "%">>,
    <<"R", "a", "i", "s", "e", "d", " ", "5", "M", " ", "i", "n", " ", "2", "0", "2", "3">>,
    <<"b", "i", "l", "l", "i", "o", "n", "-", "d", "o", "l", "l", "a", "r", " ", "r", "o", "b", "o", "t", " ", "s", "a", "f", "e", "t", "y", " ", "p", "o", "l", "i", "c", "y">>,
    <<"$", "1", "0", "B", " ", "2", "0", "2", "4", " ", "5", "0", "%", " ", "r", "o", "b", "o", "t", " ", "s", "a", "f", "e", "t", "y">> }

ScoreSources == {"OpenAI Blog", "arXiv", "Hacker News", "Unknown Blog"}

\* hours between published and the reference time; at 7 and 8 hours of 24
\* the recency arithmetic is inexact (21.249999999999996, 20.000000000000004)
ScoreAges == {-30, -3, 0, 3, 7, 8, 21, 24, 27}

\* published h hours before hour 0: on a UTC clock, without tzinfo, and on a
\* clock ten hours ahead of UTC
PublishedAgo(h) ==
  { Utc(-h), Naive(-h), [wall |-> 10 - h, aware |-> TRUE, off |-> 10] }

\* lookback_hours: 1 for realtime, 24 for daily
ScoreLookbacks == {1, 24}

ScoreInputs ==
  { NewsItem(x[1], UrlA, x[2], x[3], x[4]) :
      x \in ScoreTitles \X ScoreSources
            \X (UNION {PublishedAgo(h) : h \in ScoreAges})
            \X ScoreSummaries }

InitScore ==
  /\ PipeIdle
  /\ upc = "start"
  /\ arg1 \in ScoreInputs
  /\ arg2 \in {[reference_time |-> Utc(0), lookback_hours |-> L] :
                 L \in ScoreLookbacks}
  /\ out1 = <<>>
  /\ out2 = <<>>
  /\ varied = {}

\* score_item(arg1, reference_time, lookback_hours); the item is not written
ScoreOnce ==
  /\ upc = "start"
  /\ out1' = score_item(arg1, arg2.reference_time, arg2.lookback_hours)
  /\ upc' = "scored"
  /\ UNCHANGED << pipeVars, arg1, arg2, out2, varied >>

NextScore == ScoreOnce

SpecScore == InitScore /\ [][NextScore]_vars

(***************************************************************************)
(* Direct calls of dedupe.score_item on two items with one reference_time  *)
(* and one lookback_hours.                                                 *)
(***************************************************************************)
\* "", "$10B 2024 50%"
PairSummaries ==
  { <<>>,
    <<"$", "1", "0", "B", " ", "2", "0", "2", "4", " ", "5", "0", "%">> }

PairSources == {"OpenAI Blog", "Hacker News", "Unknown Blog"}

\* hours between published and the reference time; at 20 hours of 24 the
\* recency arithmetic is inexact (4.999999999999999)
PairAges == {0, 1, 20, 27}

PairInputs ==
  { NewsItem(x[1], UrlA, x[2], Utc(-x[3]), x[4]) :
      x \in ScoreTitles \X PairSources \X PairAges \X PairSummaries }

InitPair ==
  /\ heap = <<>>
  /\ input = <<>>
  /\ entry = ""
  /\ top_n = 0
  /\ lookback_hours \in ScoreLookbacks
  /\ similarity_threshold = TITLE_SIMILARITY_THRESHOLD
  /\ round = 0
  /\ first_ret = <<>>
  /\ first_heap = <<>>
  /\ first_reference_time = NoTime
  /\ pc = "off"
  /\ items = <<>>
  /\ seen_urls = {}
  /\ url_unique = <<>>
  /\ deduplicated = <<>>
  /\ idx = 0
  /\ unique_items = <<>>
  /\ reference_time = Utc(0)
  /\ sorted_items = <<>>
  /\ top_items = <<>>
  /\ ret = <<>>
  /\ raised = ""
  /\ now = 0
  /\ upc = "start"
  /\ arg1 \in PairInputs
  /\ arg2 \in PairInputs
  /\ out1 = <<>>
  /\ out2 = <<>>
  /\ varied = {}

\* score_item(arg1, reference_time, lookback_hours) and
\* score_item(arg2, reference_time, lookback_hours)
ScoreBoth ==
  /\ upc = "start"
  /\ out1' = score_item(arg1, reference_time, lookback_hours)
  /\ out2' = score_item(arg2, reference_time, lookback_hours)
  /\ upc' = "both"
  /\ UNCHANGED << pipeVars, arg1, arg2, varied >>

NextPair == ScoreBoth

SpecPair == InitPair /\ [][NextPair]_vars

(***************************************************************************)
(* ingest: the NewsItem a fetch function makes of a feed entry, and        *)
(* utils.parse_date and utils.clean_html, which it calls.                  *)
(***************************************************************************)
\* Python's None
None == [none |-> TRUE]

\* A date string is the text of a date or text dateutil cannot parse.
GarbageDate == [text |-> "garbage"]

EmptyDate == [text |-> ""]

DateText(dt) == [text |-> "date", dt |-> dt]

\* utils.parse_date: the parsed datetime, in UTC when the text names no zone;
\* None when the parser raises ValueError or TypeError
parse_date(date_str) ==
  IF "text" \in DOMAIN date_str /\ date_str.text = "date"
  THEN IF date_str.dt.aware THEN date_str.dt
       ELSE [wall |-> date_str.dt.wall, aware |-> TRUE, off |-> 0]
  ELSE None

\* bool(value) of None, a string or a datetime
Truthy(value) == value # None /\ value # EmptyDate

\* published = None; for date_field in fields: if hasattr(entry, date_field):
\* published = parse_date(getattr(entry, date_field)); if published: break
RECURSIVE FirstParsed(_, _, _)
FirstParsed(feed_entry, fields, published) ==
  IF fields = <<>> THEN published
  ELSE IF Head(fields) \in DOMAIN feed_entry
       THEN LET parsed == parse_date(feed_entry[Head(fields)])
            IN  IF Truthy(parsed) THEN parsed
                ELSE FirstParsed(feed_entry, Tail(fields), parsed)
       ELSE FirstParsed(feed_entry, Tail(fields), published)

\* min_points of fetch_hackernews, by default
MinPoints == 10

\* s[:n] for n >= 0
Prefix(s, n) == SubSeq(s, 1, Min(n, Len(s)))

\* s.replace(old, new) for single characters
Replace(s, old, new) == [k \in 1..Len(s) |-> IF s[k] = old THEN new ELSE s[k]]

\* re.sub(r"<[^>]+>", "", html) from position i on: a "<", one character or
\* more that is not ">", and the ">" after them are taken out; "<>" stays, and
\* so does a "<" that no ">" follows
RECURSIVE RemoveTags(_, _)
RemoveTags(html, i) ==
  LET open == Find(html, {"<"}, i)
      close == IF open = 0 THEN 0 ELSE Find(html, {">"}, open + 1)
  IN  IF close = 0 THEN SubSeq(html, i, Len(html))
      ELSE IF close = open + 1
      THEN SubSeq(html, i, close) \o RemoveTags(html, close + 1)
      ELSE SubSeq(html, i, open - 1) \o RemoveTags(html, close + 1)

\* re.sub(r"\s+", " ", text): every run of whitespace becomes one space
CollapseSpace(text) ==
  SelectSeq([k \in 1..Len(text) |->
               IF ~IsSpace(text[k]) THEN text[k]
               ELSE IF k > 1 /\ IsSpace(text[k - 1]) THEN ""
               ELSE " "],
            LAMBDA c : c # "")

\* utils.clean_html
clean_html(html) == Strip(CollapseSpace(RemoveTags(html, 1)))

\* a number and a string of the JSON a Hacker News hit is made of; JSON's null
\* is None
JsonInt(n) == [int |-> n]

JsonStr(text) == [str |-> text]

\* str(n) for an int n >= 0
RECURSIVE DigitsText(_)
DigitsText(n) ==
  LET digit == <<"0", "1", "2", "3", "4", "5", "6", "7", "8", "9">>[(n % 10) + 1]
  IN  IF n < 10 THEN <<digit>> ELSE DigitsText(n \div 10) \o <<digit>>

\* f"{value}" of None, an int or a string
FormatValue(value) ==
  IF value = None THEN <<"N", "o", "n", "e">>
  ELSE IF "int" \in DOMAIN value
  THEN (IF value.int < 0 THEN <<"-">> ELSE <<>>) \o DigitsText(Abs(value.int))
  ELSE value.str

\* "Untitled"
Untitled == <<"U", "n", "t", "i", "t", "l", "e", "d">>

\* "https://news.ycombinator.com/item?id="
HackernewsItemUrl ==
  <<"h", "t", "t", "p", "s", ":", "/", "/", "n", "e", "w", "s", ".", "y",
    "c", "o", "m", "b", "i", "n", "a", "t", "o", "r", ".", "c", "o", "m",
    "/", "i", "t", "e", "m", "?", "i", "d", "=">>

\* f"From r/{subreddit}" for r/artificial
FromSubreddit ==
  <<"F", "r", "o", "m", " ", "r", "/", "a", "r", "t", "i", "f", "i", "c",
    "i", "a", "l">>

\* NewsItem(title=..., url=..., source=..., published=..., summary=...,
\* authors=...)
FetchedItem(title, url, source, published, summary, authors) ==
  [NewsItem(title, url, source, published, summary) EXCEPT !.authors = authors]

\* summary = ""; if hasattr(entry, "summary"): summary = clean_html(
\* entry.summary); elif hasattr(entry, "description"): ...
RssSummary(feed_entry) ==
  IF "summary" \in DOMAIN feed_entry THEN clean_html(feed_entry.summary)
  ELSE IF "description" \in DOMAIN feed_entry
  THEN clean_html(feed_entry.description)
  ELSE <<>>

\* the NewsItem fetch_rss_feeds makes of an entry of the feed "OpenAI Blog"
RssItem(feed_entry, published) ==
  FetchedItem(DictGet(feed_entry, "title", Untitled),
              DictGet(feed_entry, "link", <<>>),
              "OpenAI Blog",
              published,
              Prefix(RssSummary(feed_entry), 500),
              <<>>)

\* authors = [a.get("name", "") for a in entry.authors], or []
ArxivAuthors(feed_entry) ==
  IF "authors" \in DOMAIN feed_entry
  THEN [k \in 1..Len(feed_entry.authors) |->
          DictGet(feed_entry.authors[k], "name", <<>>)]
  ELSE <<>>

\* the NewsItem fetch_arxiv makes of an entry
ArxivItem(feed_entry, published) ==
  FetchedItem(Replace(DictGet(feed_entry, "title", <<>>), "\n", " "),
              DictGet(feed_entry, "link", <<>>),
              "arXiv",
              published,
              Prefix(Replace(clean_html(DictGet(feed_entry, "summary", <<>>)),
                             "\n", " "),
                     500),
              Prefix(ArxivAuthors(feed_entry), 5))

\* hit.get("url") or f"https://news.ycombinator.com/item?id={story_id}"
HackernewsUrl(url, story_id) ==
  IF url # None /\ url.str # <<>> THEN url.str
  ELSE HackernewsItemUrl \o FormatValue(story_id)

\* the NewsItem fetch_hackernews makes of a hit
HackernewsItem(hit, story_id, points, published) ==
  FetchedItem(DictGet(hit, "title", JsonStr(Untitled)).str,
              HackernewsUrl(DictGet(hit, "url", None), story_id),
              "Hacker News",
              published,
              <<"P", "o", "i", "n", "t", "s", ":", " ">> \o FormatValue(points)
                \o <<",", " ", "C", "o", "m", "m", "e", "n", "t", "s", ":", " ">>
                \o FormatValue(DictGet(hit, "num_comments", JsonInt(0))),
              << DictGet(hit, "author", JsonStr(<<>>)).str >>)

\* author = entry.get("author", ""); if author.startswith("/u/"): author =
\* author[3:]
RedditAuthor(author) ==
  IF StartsWith(author, <<"/", "u", "/">>) THEN Drop(author, 3) ELSE author

\* summary = ""; if hasattr(entry, "summary"): summary = clean_html(
\* entry.summary)[:200]
RedditSummary(feed_entry) ==
  IF "summary" \in DOMAIN feed_entry
  THEN Prefix(clean_html(feed_entry.summary), 200)
  ELSE <<>>

\* the NewsItem fetch_reddit makes of an entry of r/artificial
RedditItem(url, title, author, summary, published) ==
  FetchedItem(title, url, "Reddit r/artificial", published,
              IF summary # <<>> THEN summary
              ELSE FromSubreddit,
              IF author # <<>> THEN <<author>> ELSE <<>>)

(***************************************************************************)
(* The feeds.  An entry of a parsed feed is a mapping of field names to    *)
(* text whose keys are also its attributes; a Hacker News hit is a JSON    *)
(* object.  A date field holds a date string.                              *)
(***************************************************************************)
\* the date texts a feed can carry: unparseable, empty, an hour old with a
\* zone, thirty hours old without one
DateStrings ==
  { GarbageDate, EmptyDate, DateText(Utc(-1)), DateText(Naive(-30)) }

\* the entries with any of the given date fields present
EntriesWith(fields) ==
  UNION { [present -> DateStrings] : present \in SUBSET fields }

\* {}
EmptyDict == CHOOSE d \in [{} -> {None}] : TRUE

\* the entries that have the field, with one of the values, or do not have it
Optional(field, values) == {EmptyDict} \cup {field :> v : v \in values}

\* "OpenAI launches GPT-5"
TitleLaunch ==
  <<"O", "p", "e", "n", "A", "I", " ", "l", "a", "u", "n", "c", "h", "e",
    "s", " ", "G", "P", "T", "-", "5">>

\* "Scaling\nlaws": an arXiv title comes with its line breaks
TitleTwoLines ==
  <<"S", "c", "a", "l", "i", "n", "g", "\n", "l", "a", "w", "s">>

\* "<p>OpenAI launches GPT-5, raises $10B</p>"
SummaryHtml ==
  <<"<", "p", ">", "O", "p", "e", "n", "A", "I", " ", "l", "a", "u", "n",
    "c", "h", "e", "s", " ", "G", "P", "T", "-", "5", ",", " ", "r", "a",
    "i", "s", "e", "s", " ", "$", "1", "0", "B", "<", "/", "p", ">">>

\* " a <b\n class='x'>b</b>\n\n c\t<> d < e ": a tag over two lines, a "<>",
\* a "<" that is never closed, runs of whitespace
SummaryMessy ==
  <<" ", "a", " ", "<", "b", "\n", " ", "c", "l", "a", "s", "s", "=", "'",
    "x", "'", ">", "b", "<", "/", "b", ">", "\n", "\n", " ", "c", "\t", "<",
    ">", " ", "d", " ", "<", " ", "e", " ">>

\* "<br/>": nothing is left of it
SummaryOnlyTag ==
  <<"<", "b", "r", "/", ">">>

\* "<p>" and 510 characters, every sixth of them a space
SummaryLong ==
  <<"<", "p", ">">> \o [k \in 1..510 |-> IF k % 6 = 0 THEN " " ELSE "a"]

\* "plain text"
DescriptionPlain ==
  <<"p", "l", "a", "i", "n", " ", "t", "e", "x", "t">>

SummaryTexts == {SummaryHtml, SummaryMessy, SummaryOnlyTag, SummaryLong, <<>>}

\* an entry's date when the run is about its other fields: an hour old
FreshDate == "published" :> DateText(Utc(-1))

\* the entries of an RSS feed: every way of dating an entry that has a title
\* and a link, and every way of filling the other fields of a fresh entry
RssEntries ==
  { dates @@ ("title" :> TitleLaunch) @@ ("link" :> UrlA) :
      dates \in EntriesWith({"published", "updated", "created"}) }
  \cup
  { FreshDate @@ title @@ link @@ summary @@ description :
      title \in Optional("title", {TitleLaunch}),
      link \in Optional("link", {UrlA}),
      summary \in Optional("summary", SummaryTexts),
      description \in Optional("description", {DescriptionPlain}) }

\* entry.authors of arXiv: a list of dicts, with a name as a rule
AuthorLists ==
  { <<>>,
    << [name |-> <<"A", "n", "n">>] >>,
    << [name |-> <<"A", "n", "n">>], [name |-> <<"B", "o", "b">>],
       EmptyDict, [name |-> <<"D", "i">>],
       [name |-> <<"E", "d">>], [name |-> <<"F", "l", "o">>] >> }

\* the entries of the arXiv feed
ArxivEntries ==
  { dates @@ title @@ link @@ summary @@ authors :
      dates \in EntriesWith({"published"}),
      title \in Optional("title", {TitleTwoLines}),
      link \in Optional("link", {UrlB}),
      summary \in Optional("summary", {SummaryHtml, SummaryMessy}),
      authors \in Optional("authors", AuthorLists) }

\* the hits of a Hacker News search: "created_at", "points", "url" and
\* "num_comments" can be null
HackernewsHits ==
  { id @@ points @@ created_at @@ url @@ title @@ num_comments @@ author :
      id \in Optional("objectID", {JsonStr(<<"4", "1">>)}),
      points \in Optional("points", {None, JsonInt(5), JsonInt(50)}),
      created_at \in EntriesWith({"created_at"})
                       \cup {[f \in {"created_at"} |-> None]},
      url \in Optional("url", {None, JsonStr(<<>>), JsonStr(UrlA)}),
      title \in Optional("title", {JsonStr(TitleLaunch)}),
      num_comments \in Optional("num_comments", {None, JsonInt(7)}),
      author \in Optional("author", {JsonStr(<<"p", "g">>)}) }

\* the entries of a subreddit's feed
RedditEntries ==
  { dates @@ ("title" :> TitleLaunch) @@ ("link" :> UrlA) :
      dates \in EntriesWith({"published", "updated"}) }
  \cup
  { FreshDate @@ link @@ title @@ author @@ summary :
      link \in Optional("link", {UrlA}),
      title \in Optional("title", {TitleLaunch}),
      author \in Optional("author", {<<>>, <<"b", "o", "b">>,
                                     <<"/", "u", "/", "a", "n", "n">>}),
      summary \in Optional("summary", SummaryTexts) }

Fetchers ==
  {"fetch_rss_feeds", "fetch_arxiv", "fetch_hackernews", "fetch_reddit"}

\* the entries of each fetch function's feed
FeedEntries(fetcher) ==
  CASE fetcher = "fetch_rss_feeds" -> RssEntries
    [] fetcher = "fetch_arxiv" -> ArxivEntries
    [] fetcher = "fetch_hackernews" -> HackernewsHits
    [] fetcher = "fetch_reddit" -> RedditEntries

\* the entries of the feeds of two entries: fresh ones and one too old, with
\* the same link or id and with another, and a hit whose points are null
PairEntries(fetcher) ==
  CASE fetcher = "fetch_rss_feeds" ->
         { FreshDate @@ ("title" :> TitleLaunch) @@ ("link" :> UrlA),
           ("updated" :> DateText(Naive(-30))) @@ ("link" :> UrlB),
           ("link" :> UrlA) @@ ("summary" :> SummaryHtml) }
    [] fetcher = "fetch_arxiv" ->
         { FreshDate @@ ("title" :> TitleTwoLines) @@ ("link" :> UrlA),
           ("published" :> DateText(Naive(-30))) @@ ("link" :> UrlB),
           ("published" :> GarbageDate) @@ ("link" :> UrlA) }
    [] fetcher = "fetch_hackernews" ->
         { ("objectID" :> JsonStr(<<"4", "1">>)) @@ ("points" :> JsonInt(50))
             @@ ("title" :> JsonStr(TitleLaunch)),
           ("objectID" :> JsonStr(<<"4", "1">>)) @@ ("points" :> JsonInt(50))
             @@ ("created_at" :> GarbageDate),
           ("objectID" :> JsonStr(<<"4", "2">>)) @@ ("points" :> None),
           ("objectID" :> JsonStr(<<"4", "2">>)) @@ ("points" :> JsonInt(12))
             @@ ("url" :> JsonStr(UrlB)) }
    [] fetcher = "fetch_reddit" ->
         { FreshDate @@ ("title" :> TitleLaunch) @@ ("link" :> UrlA),
           ("link" :> UrlA) @@ ("summary" :> SummaryHtml),
           ("updated" :> DateText(Naive(-30))) @@ ("link" :> UrlB) }

\* feed.entries, or data["hits"]: no entry, one, or two
Feeds(fetcher) ==
  {<<>>} \cup {<<e>> : e \in FeedEntries(fetcher)}
    \cup {<<a, b>> : a \in PairEntries(fetcher), b \in PairEntries(fetcher)}

\* Config.top_n_items, by default
top_n_items == 10

\* Config.lookback_hours_daily, lookback_hours_realtime and
\* lookback_hours_weekly, by default
lookback_hours_daily == 24

lookback_hours_realtime == 1

lookback_hours_weekly == 168

\* mode of fetch_all_sources
Modes == {"daily", "realtime", "weekly"}

\* max_words of extract_article_content, by default
max_words == 500

\* text.split(): the words between the runs of whitespace, those before a
\* whitespace character near the middle of the text and those after it
RECURSIVE SplitWords(_)
SplitWords(text) ==
  LET spaces == {k \in 1..Len(text) : IsSpace(text[k])}
      after == {k \in spaces : 2 * k >= Len(text)}
      mid == IF after = {} THEN SetMax(spaces) ELSE SetMin(after)
  IN  IF Len(text) = 0 THEN <<>>
      ELSE IF spaces = {} THEN <<text>>
      ELSE SplitWords(Take(text, mid - 1)) \o SplitWords(Drop(text, mid))

\* What requests.get and BeautifulSoup give for an article URL: the request
\* raises, the page has no content element, or content.get_text(separator=
\* " ", strip=True) is a text.
PageRaises == [page |-> "raises"]

PageNoContent == [page |-> "no content"]

PageText(text) == [page |-> "text", text |-> text]

\* "Some  text", with two spaces
PageShort == PageText(<<"S", "o", "m", "e", " ", " ", "t", "e", "x", "t">>)

\* 501 words "a", a space or a line break after each
PageLong ==
  PageText([k \in 1..1002 |->
              IF k % 2 = 1 THEN "a" ELSE IF k % 4 = 0 THEN "\n" ELSE " "])

Pages == {PageRaises, PageNoContent, PageShort, PageLong}

\* ingest.extract_article_content on what the URL gives: "" when the request
\* raises or no content is found, else the text, cut to max_words words
\* joined by one space and "..." when it has more
extract_article_content(page) ==
  IF page.page # "text" THEN <<>>
  ELSE LET words == SplitWords(page.text)
       IN  IF Len(words) > max_words
           THEN Join(Prefix(words, max_words), <<" ">>) \o <<".", ".", ".">>
           ELSE page.text

\* What the four sources deliver in a run, by fetch function.  One source
\* delivers any feed of the model and the others nothing:
OneSourceFeeds ==
  { [fetch_rss_feeds |-> feed, fetch_arxiv |-> <<>>,
     fetch_hackernews |-> <<>>, fetch_reddit |-> <<>>] :
      feed \in Feeds("fetch_rss_feeds") }
  \cup
  { [fetch_rss_feeds |-> <<>>, fetch_arxiv |-> feed,
     fetch_hackernews |-> <<>>, fetch_reddit |-> <<>>] :
      feed \in Feeds("fetch_arxiv") }
  \cup
  { [fetch_rss_feeds |-> <<>>, fetch_arxiv |-> <<>>,
     fetch_hackernews |-> feed, fetch_reddit |-> <<>>] :
      feed \in Feeds("fetch_hackernews") }
  \cup
  { [fetch_rss_feeds |-> <<>>, fetch_arxiv |-> <<>>,
     fetch_hackernews |-> <<>>, fetch_reddit |-> feed] :
      feed \in Feeds("fetch_reddit") }

\* or every source delivers no entry or one: a fresh RSS entry with a link or
\* without, an arXiv paper, a Hacker News hit with a date or with an
\* unparseable one, a Reddit post
OneEntryFeeds ==
  { [fetch_rss_feeds |-> rss, fetch_arxiv |-> arxiv,
     fetch_hackernews |-> hackernews, fetch_reddit |-> reddit] :
      rss \in { <<>>,
                << FreshDate @@ ("title" :> TitleLaunch) @@ ("link" :> UrlA) >>,
                << FreshDate @@ ("title" :> TitleLaunch) >> },
      arxiv \in { <<>>,
                  << FreshDate @@ ("title" :> TitleTwoLines) @@ ("link" :> UrlB) >> },
      hackernews \in { <<>>,
                       << ("objectID" :> JsonStr(<<"4", "1">>))
                            @@ ("points" :> JsonInt(50))
                            @@ ("created_at" :> DateText(Utc(-1)))
                            @@ ("title" :> JsonStr(TitleLaunch)) >>,
                       << ("objectID" :> JsonStr(<<"4", "2">>))
                            @@ ("points" :> JsonInt(12))
                            @@ ("created_at" :> GarbageDate)
                            @@ ("url" :> JsonStr(UrlB)) >> },
      reddit \in { <<>>,
                   << ("updated" :> DateText(Naive(-30))) @@ ("link" :> UrlC) >> } }

(***************************************************************************)
(* ingest.fetch_all_sources(config, mode, show_progress, fetch_content)    *)
(* and the core's scoring of the list it returns.  arg1 holds the          *)
(* arguments mode and fetch_content, arg2 the entries each fetch function  *)
(* gets from its source (one source each).  upc is the position: "start",  *)
(* the fetch function under way, "except" in the handler of                *)
(* fetch_hackernews, "content" after the last one, "fetched" when the list *)
(* is returned, "score" and "log" in score_and_rank_items, "handed" when   *)
(* it has returned and "raised" when an exception has left it.             *)
(* lookback_hours is max_hours, input is all_items, items the list of the  *)
(* fetch function under way, idx the number of entries (of items in the    *)
(* content loop) its loop has been through, seen_urls the set fetch_reddit *)
(* (seen_urls) and fetch_hackernews (seen_ids) keep, out1 the list         *)
(* returned.  score_and_rank_items then runs on it: unique_items is its    *)
(* parameter, and the scores are written into the objects of heap.  Every  *)
(* datetime.now reads the clock anew: now is the last reading, and a       *)
(* reading is any value of the clock not before it.                        *)
(***************************************************************************)
InitFetch ==
  /\ PipeIdle
  /\ upc = "start"
  /\ \/ /\ arg1 \in [mode : Modes, fetch_content : {FALSE}]
        /\ arg2 \in OneSourceFeeds
     \/ /\ arg1 \in [mode : Modes, fetch_content : BOOLEAN]
        /\ arg2 \in OneEntryFeeds
  /\ out1 = <<>>
  /\ out2 = <<>>
  /\ varied = {}

\* what no step of fetch_all_sources or of score_and_rank_items writes
fetchFrame ==
  << entry, similarity_threshold, round, first_ret, first_heap,
     first_reference_time, pc, url_unique, deduplicated, arg1, arg2, varied,
     out2 >>

\* what score_and_rank_items writes besides the scores
rankFrame == << top_n, unique_items, sorted_items, top_items, ret >>

\* the readings of the clock from t on
Later(t) == {later \in ClockValues : later >= t}

\* max_hours by mode, and the call of fetch_rss_feeds
FetchAllSources ==
  /\ upc = "start"
  /\ lookback_hours' = IF arg1.mode = "weekly" THEN lookback_hours_weekly
                       ELSE IF arg1.mode = "realtime" THEN lookback_hours_realtime
                       ELSE lookback_hours_daily
  /\ upc' = "fetch_rss_feeds"
  /\ UNCHANGED << fetchFrame, rankFrame, heap, input, items, idx, seen_urls,
                  reference_time, raised, now, out1 >>

\* items.append(item)
Appended(item) ==
  /\ heap' = Append(heap, item)
  /\ items' = Append(items, Len(heap) + 1)

\* continue
Skipped == UNCHANGED << heap, items >>

\* hours_since(published) > max_hours, the clock read at t
TooOld(published, t) ==
  FloatLess(FloatFromInt(lookback_hours), hours_since(published, Utc(t)))

\* The body of "for entry in feed.entries" of fetch_rss_feeds: the clock is
\* read at t1 for the date of an entry without one, and at t2 by hours_since.
FetchRssEntry ==
  /\ upc = "fetch_rss_feeds"
  /\ idx < Len(arg2[upc])
  /\ \E t1 \in Later(now) : \E t2 \in Later(t1) :
        /\ LET parsed == FirstParsed(arg2[upc][idx + 1],
                                     <<"published", "updated", "created">>, None)
               published == IF ~Truthy(parsed) THEN Utc(t1) ELSE parsed
           IN  IF TooOld(published, t2) THEN Skipped
               ELSE Appended(RssItem(arg2[upc][idx + 1], published))
        /\ now' = t2
  /\ idx' = idx + 1
  /\ UNCHANGED << fetchFrame, rankFrame, input, lookback_hours, seen_urls, reference_time,
                  raised, upc, out1 >>

\* the body of "for entry in feed.entries" of fetch_arxiv: the clock is read
\* by hours_since, for an entry whose date was parsed
FetchArxivEntry ==
  /\ upc = "fetch_arxiv"
  /\ idx < Len(arg2[upc])
  /\ LET published == parse_date(DictGet(arg2[upc][idx + 1], "published", EmptyDate))
     IN  IF ~Truthy(published)
         THEN /\ Skipped
              /\ UNCHANGED now
         ELSE \E t \in Later(now) :
                 /\ IF TooOld(published, t) THEN Skipped
                    ELSE Appended(ArxivItem(arg2[upc][idx + 1], published))
                 /\ now' = t
  /\ idx' = idx + 1
  /\ UNCHANGED << fetchFrame, rankFrame, input, lookback_hours, seen_urls, reference_time,
                  raised, upc, out1 >>

\* the rest of the body for a hit not seen before: "points < min_points"
\* raises TypeError when points is None, and "except Exception" ends the
\* loop; the clock is read for a hit without created_at
HackernewsFresh(hit, story_id, points) ==
  IF points = None
  THEN /\ upc' = "except"
       /\ Skipped
       /\ UNCHANGED now
  ELSE /\ upc' = upc
       /\ IF points.int < MinPoints
          THEN /\ Skipped
               /\ UNCHANGED now
          ELSE LET created_at == DictGet(hit, "created_at", None)
               IN  IF Truthy(created_at)
                   THEN /\ Appended(HackernewsItem(hit, story_id, points,
                                                   parse_date(created_at)))
                        /\ UNCHANGED now
                   ELSE \E t \in Later(now) :
                           /\ Appended(HackernewsItem(hit, story_id, points, Utc(t)))
                           /\ now' = t

\* the body of "for hit in data.get('hits', [])" of fetch_hackernews
FetchHackernewsHit ==
  /\ upc = "fetch_hackernews"
  /\ idx < Len(arg2[upc])
  /\ LET story_id == DictGet(arg2[upc][idx + 1], "objectID", None)
     IN  IF story_id \in seen_urls
         THEN /\ Skipped
              /\ UNCHANGED << seen_urls, upc, now >>
         ELSE /\ seen_urls' = seen_urls \cup {story_id}
              /\ HackernewsFresh(arg2[upc][idx + 1], story_id,
                                 DictGet(arg2[upc][idx + 1], "points", JsonInt(0)))
  /\ idx' = idx + 1
  /\ UNCHANGED << fetchFrame, rankFrame, input, lookback_hours, reference_time, raised,
                  out1 >>

\* the rest of the body for a link not seen before: the clock is read at t1
\* for the date of an entry without one, and at t2 by hours_since
RedditFresh(feed_entry, url) ==
  \E t1 \in Later(now) : \E t2 \in Later(t1) :
     /\ LET parsed == FirstParsed(feed_entry, <<"published", "updated">>, None)
            published == IF ~Truthy(parsed) THEN Utc(t1) ELSE parsed
        IN  IF TooOld(published, t2) THEN Skipped
            ELSE Appended(RedditItem(url,
                                     DictGet(feed_entry, "title", Untitled),
                                     RedditAuthor(DictGet(feed_entry, "author", <<>>)),
                                     RedditSummary(feed_entry),
                                     published))
     /\ now' = t2

\* the body of "for entry in feed.entries" of fetch_reddit
FetchRedditEntry ==
  /\ upc = "fetch_reddit"
  /\ idx < Len(arg2[upc])
  /\ LET url == DictGet(arg2[upc][idx + 1], "link", <<>>)
     IN  IF url \in seen_urls
         THEN /\ Skipped
              /\ UNCHANGED << seen_urls, now >>
         ELSE /\ seen_urls' = seen_urls \cup {url}
              /\ RedditFresh(arg2[upc][idx + 1], url)
  /\ idx' = idx + 1
  /\ UNCHANGED << fetchFrame, rankFrame, input, lookback_hours, reference_time, raised,
                  upc, out1 >>

\* what fetch_all_sources does after a fetch function: the next one, and the
\* content loop after fetch_reddit
AfterFetch(fetcher) ==
  CASE fetcher = "fetch_rss_feeds" -> "fetch_arxiv"
    [] fetcher = "fetch_arxiv" -> "fetch_hackernews"
    [] fetcher \in {"fetch_hackernews", "except"} -> "fetch_reddit"
    [] fetcher = "fetch_reddit" -> "content"

\* The loop of a fetch function is over, or "except Exception" has logged a
\* warning: its one source is done, it returns items, and fetch_all_sources
\* extends all_items with them and goes on.  fetch_hackernews reads the
\* clock for the numericFilters of the request it sends.
FetchReturn ==
  /\ \/ upc \in Fetchers /\ idx = Len(arg2[upc])
     \/ upc = "except"
  /\ input' = input \o items
  /\ items' = <<>>
  /\ idx' = 0
  /\ seen_urls' = {}
  /\ upc' = AfterFetch(upc)
  /\ \E t \in Later(now) :
        now' = IF AfterFetch(upc) = "fetch_hackernews" THEN t ELSE now
  /\ UNCHANGED << fetchFrame, rankFrame, heap, lookback_hours, reference_time, raised,
                  out1 >>

\* the body of "for item in item_iter" when fetch_content is set: an item
\* with a URL and no content gets what extract_article_content returns
ExtractContent ==
  /\ upc = "content"
  /\ arg1.fetch_content
  /\ idx < Len(input)
  /\ IF heap[input[idx + 1]].content = <<>> /\ heap[input[idx + 1]].url # <<>>
     THEN \E page \in Pages :
             heap' = [heap EXCEPT ![input[idx + 1]].content =
                                     extract_article_content(page)]
     ELSE UNCHANGED heap
  /\ idx' = idx + 1
  /\ UNCHANGED << fetchFrame, rankFrame, input, lookback_hours, items, seen_urls,
                  reference_time, raised, now, upc, out1 >>

\* return all_items
FetchAllReturn ==
  /\ upc = "content"
  /\ arg1.fetch_content => idx = Len(input)
  /\ out1' = input
  /\ upc' = "fetched"
  /\ UNCHANGED << fetchFrame, rankFrame, heap, input, lookback_hours, items,
                  idx, seen_urls, reference_time, raised, now >>

\* The list returned is handed to the core with the top_n of the
\* configuration and the lookback of the mode:
\* score_and_rank_items(items, top_n_items, max_hours), which begins with
\* reference_time = datetime.now(timezone.utc), for an empty list as well.
ReadClockFetched ==
  /\ upc = "fetched"
  /\ unique_items' = out1
  /\ top_n' = top_n_items
  /\ \E t \in Later(now) :
        /\ reference_time' = Utc(t)
        /\ now' = t
  /\ idx' = 0
  /\ upc' = "score"
  /\ UNCHANGED << fetchFrame, heap, input, lookback_hours, items, seen_urls,
                  sorted_items, top_items, ret, raised, out1 >>

\* One turn of "for item in items": item.score = score_item(item,
\* reference_time, lookback_hours).  score_item calls
\* hours_since(item.published, reference_time), which reads dt.tzinfo and
\* raises AttributeError on None; nothing catches it.
ScoreFetched ==
  /\ upc = "score"
  /\ idx < Len(unique_items)
  /\ IF heap[unique_items[idx + 1]].published = None
     THEN /\ raised' = "AttributeError"
          /\ upc' = "raised"
          /\ UNCHANGED << heap, idx >>
     ELSE /\ heap' = [heap EXCEPT
                        ![unique_items[idx + 1]].score =
                           score_item(heap[unique_items[idx + 1]],
                                      reference_time, lookback_hours)]
          /\ idx' = idx + 1
          /\ UNCHANGED << raised, upc >>
  /\ UNCHANGED << fetchFrame, rankFrame, input, lookback_hours, items,
                  seen_urls, reference_time, now, out1 >>

\* sorted_items = sorted(...); top_items = sorted_items[:top_n]
SortAndSliceFetched ==
  /\ upc = "score"
  /\ idx = Len(unique_items)
  /\ sorted_items' = SortedByScore(heap, unique_items)
  /\ top_items' = TopSlice(sorted_items', top_n)
  /\ upc' = "log"
  /\ UNCHANGED << fetchFrame, heap, input, lookback_hours, items, idx,
                  seen_urls, top_n, unique_items, reference_time, ret, raised,
                  now, out1 >>

\* the log line indexes top_items[-1] and top_items[0]: IndexError when
\* top_items is empty
LogRaisesFetched ==
  /\ upc = "log"
  /\ top_items = <<>>
  /\ raised' = "IndexError"
  /\ upc' = "raised"
  /\ UNCHANGED << fetchFrame, rankFrame, heap, input, lookback_hours, items,
                  idx, seen_urls, reference_time, now, out1 >>

\* the log line, then "return top_items"
RankReturnFetched ==
  /\ upc = "log"
  /\ top_items # <<>>
  /\ ret' = top_items
  /\ upc' = "handed"
  /\ UNCHANGED << fetchFrame, heap, input, lookback_hours, items, idx,
                  seen_urls, top_n, unique_items, reference_time, sorted_items,
                  top_items, raised, now, out1 >>

NextFetch ==
  \/ FetchAllSources
  \/ FetchRssEntry
  \/ FetchArxivEntry
  \/ FetchHackernewsHit
  \/ FetchRedditEntry
  \/ FetchReturn
  \/ ExtractContent
  \/ FetchAllReturn
  \/ ReadClockFetched
  \/ ScoreFetched
  \/ SortAndSliceFetched
  \/ LogRaisesFetched
  \/ RankReturnFetched

SpecFetch == InitFetch /\ [][NextFetch]_vars

(***************************************************************************)
(* Properties.                                                             *)
(***************************************************************************)
Score(ref) == heap[ref].score

NormalizedUrlOf(ref) == normalize_url(heap[ref].url)

\* whole hours from dt to reference (the datetimes of the model fall on whole
\* hours)
AgeInHours(dt, reference) == TimeDelta(dt, reference) \div 3600

\* score_item's four components summed as floats, in the order of the code
SumOfFour(recency, credibility, numbers, keywords) ==
  FloatAdd(FloatAdd(FloatAdd(recency, FloatFromInt(credibility)),
                    FloatFromInt(numbers)),
           FloatFromInt(keywords))

\* |x|
FloatAbs(x) == [x EXCEPT !.neg = FALSE]

\* x and y differ by no more than 1e-9
FloatNear(x, y) ==
  FloatLeq(FloatAbs(FloatSub(x, y)),
           FloatDiv(FloatFromInt(1), FloatFromInt(1000000000)))

SimilarTitles(a, b) ==
  SimilarityAtLeast(title_similarity(heap[a].title, heap[b].title),
                    similarity_threshold)

\* C1: an empty item list is not an error at any stage: deduplicate_items([]),
\* score_and_rank_items([], top_n) and process_items([], top_n, lookback_hours)
\* never raise and return the empty list, for every positive top_n.
C1_EmptyListIsNoError ==
  (input = <<>> /\ (entry = "deduplicate_items" \/ top_n > 0)) =>
     /\ raised = ""
     /\ pc = "done" => ret = <<>>

\* C2 as stated: for a non-empty item list and a positive top_n, process_items
\* never raises and returns exactly min(top_n, k) items, k being the number of
\* items deduplicate_items left.  An item whose URL opens a "[" it never
\* closes makes urlparse, and with it process_items, raise ValueError.
C2_ReturnsMinTopNSurvivors ==
  (entry = "process_items" /\ input # <<>> /\ top_n > 0) =>
     /\ raised = ""
     /\ pc = "done" => Len(ret) = Min(top_n, Len(unique_items))

\* C3: for a non-empty item list and a positive top_n, the list returned by
\* score_and_rank_items and by process_items has at most top_n elements and
\* its scores never increase from one element to the next.
C3_AtMostTopNNonIncreasing ==
  (pc = "done" /\ entry \in {"score_and_rank_items", "process_items"}
     /\ input # <<>> /\ top_n > 0) =>
     /\ Len(ret) <= top_n
     /\ \A i \in 1..Len(ret), j \in 1..Len(ret) :
           i < j => FloatLeq(Score(ret[j]), Score(ret[i]))

\* C3 witness: score_and_rank_items returned two items in the reverse of the
\* order it was given them, the second with a strictly smaller score.
C3_Witness ==
  /\ pc = "done"
  /\ entry = "score_and_rank_items"
  /\ Len(ret) = 2
  /\ ret[1] > ret[2]
  /\ FloatLess(Score(ret[2]), Score(ret[1]))

\* similar-to is symmetric and transitive on the titles of the items
TitleSimilarityIsEquivalence ==
  \A a \in 1..Len(heap), b \in 1..Len(heap) :
     /\ SimilarTitles(a, b) => SimilarTitles(b, a)
     /\ \A c \in 1..Len(heap) :
           SimilarTitles(a, b) /\ SimilarTitles(b, c) => SimilarTitles(a, c)

\* the second call of deduplicate_items, on the list the first returned, is back
DedupedTwice == entry = "deduplicate_items" /\ round = 2 /\ pc = "done"

\* C4 as stated: for every item list X, deduplicate_items(deduplicate_items(X))
\* holds exactly the items of deduplicate_items(X).
C4_IdempotentForEveryList ==
  DedupedTwice => Refs(ret) = Refs(first_ret)

\* C4 amended: when title similarity is symmetric and transitive on the titles
\* of X, deduplicate_items(deduplicate_items(X)) holds exactly the items of
\* deduplicate_items(X), in the same order; for every X it holds only items
\* of deduplicate_items(X).
C4_IdempotentOnEquivalence ==
  DedupedTwice =>
     /\ Refs(ret) \subseteq Refs(first_ret)
     /\ TitleSimilarityIsEquivalence => ret = first_ret

\* C4 witness: on titles whose similarity is an equivalence the first call
\* dropped the first of three items for the third, similar to it and more
\* credible, and the second call returned the same two items.
C4_Witness ==
  /\ DedupedTwice
  /\ TitleSimilarityIsEquivalence
  /\ Len(input) = 3
  /\ SimilarTitles(3, 1)
  /\ first_ret = <<2, 3>>
  /\ ret = first_ret

\* C5: the output of deduplicate_items holds at most one item per normalized
\* URL, for every input in every order; and from a non-empty input whose URLs
\* all normalize to the same string exactly one item survives.
C5_OneItemPerNormalizedUrl ==
  (entry = "deduplicate_items" /\ pc = "done") =>
     /\ \A i \in 1..Len(ret), j \in 1..Len(ret) :
           i # j => NormalizedUrlOf(ret[i]) # NormalizedUrlOf(ret[j])
     /\ ( /\ round = 1
          /\ input # <<>>
          /\ \A a \in Refs(input), b \in Refs(input) :
                NormalizedUrlOf(a) = NormalizedUrlOf(b) )
        => Len(ret) = 1

\* C5 witness: two items with different titles whose URLs differ as text and
\* normalize to the same string went in, and one came out.
C5_Witness ==
  /\ entry = "deduplicate_items"
  /\ pc = "done"
  /\ round = 1
  /\ Len(input) = 2
  /\ heap[1].url # heap[2].url
  /\ NormalizedUrlOf(1) = NormalizedUrlOf(2)
  /\ ~SimilarTitles(1, 2)
  /\ ~SimilarTitles(2, 1)
  /\ Len(ret) = 1

\* the items of the input have pairwise different normalized URLs and
\* pairwise similar titles
OneTitleCluster ==
  \A a \in Refs(input), b \in Refs(input) :
     a # b => /\ NormalizedUrlOf(a) # NormalizedUrlOf(b)
              /\ SimilarTitles(a, b)

\* the earliest item of the input among those of maximum credibility
EarliestMostCredible ==
  CHOOSE a \in Refs(input) :
     \A b \in Refs(input) :
        \/ Credibility(heap[a].source) > Credibility(heap[b].source)
        \/ Credibility(heap[a].source) = Credibility(heap[b].source) /\ a <= b

\* C6: from an input whose items have pairwise different normalized URLs and
\* pairwise similar titles, deduplicate_items returns exactly one item: one of
\* maximum source credibility, the earliest of them in input order, whatever
\* the order of the input.
C6_SurvivorIsMostCredible ==
  (entry = "deduplicate_items" /\ pc = "done" /\ round = 1
     /\ input # <<>> /\ OneTitleCluster) =>
     ret = <<EarliestMostCredible>>

\* C6 witness: a cluster of three whose first item is the least credible and
\* whose other two share the maximum credibility; the second one survived.
C6_Witness ==
  /\ entry = "deduplicate_items"
  /\ pc = "done"
  /\ round = 1
  /\ Len(input) = 3
  /\ OneTitleCluster
  /\ Credibility(heap[1].source) < Credibility(heap[2].source)
  /\ Credibility(heap[2].source) = Credibility(heap[3].source)
  /\ ret = <<2>>

\* C7 as stated: two URLs that differ only in the letter case of the scheme,
\* a leading "www." on the host, deny-listed tracking parameters or a trailing
\* slash on the path normalize to equal strings.
C7_VariantsNormalizeEqual ==
  upc = "compared" => out1 = out2 /\ out1 # ValueError

\* the first ";" of the last segment of a path, 0 when it has none
FirstSemi(path) == Find(path, {";"}, RFind(path, {"/"}) + 1)

\* urlunsplit writes "//" before the path of a result: the netloc is not
\* empty once a leading "www." is gone, or the scheme is one that takes a
\* netloc (the path then must not begin with "//")
WritesNetloc(scheme, netloc) ==
  \/ netloc \notin {<<>>, <<"w", "w", "w", ".">>}
  \/ Len(scheme) > 0 /\ scheme \in uses_netloc

\* The ";" at position semi of a path starts the path parameters when it is
\* in the last segment and not when a "/" follows it.  Its place in the
\* result differs between the two readings when it ends the path (counted
\* when at_end: empty parameters are not written back), or when it follows
\* a "/" that rstrip takes away in one reading only, other than the "/"
\* urlunsplit writes back after a netloc.
SemiMoves(scheme, netloc, path, semi, at_end) ==
  /\ semi > 0
  /\ \/ at_end /\ semi = Len(path)
     \/ /\ semi > 1
        /\ path[semi - 1] = "/"
        /\ ~(semi = 2 /\ WritesNetloc(scheme, netloc))

\* the netloc is a host alone that does not begin with "www."
WwwVariantStripped(netloc) ==
  /\ "@" \notin Refs(netloc)
  /\ ~StartsWith(netloc, <<"w", "w", "w", ".">>)

\* a "/" put after the path leaves the ";" of its last segment where it was
SlashVariantStripped(parts) ==
  \/ parts.scheme \notin uses_params
  \/ Len(parts.path) > 0 /\ parts.path[Len(parts.path)] = "/"
  \/ ~SemiMoves(parts.scheme, parts.netloc, parts.path,
                FirstSemi(parts.path), TRUE)

\* C7 amended: two such URLs normalize to equal strings, or urlparse refuses
\* both, when the "www." is put before a netloc that holds no user
\* information ("@") and does not itself begin with "www." (normalize_url
\* tests the netloc, and strips one prefix only), and the trailing slash
\* after a path whose last segment, for a scheme with path parameters and a
\* path not ending in "/", does not end at its first ";" and has no "/"
\* right before it other than the "/" written back after the netloc (the
\* slash otherwise moves the ";" from the parameters into the path).
C7_VariantsNormalizeEqualOneWww ==
  ( /\ upc = "compared"
    /\ "www" \in varied => WwwVariantStripped(arg1.netloc)
    /\ "slash" \in varied => SlashVariantStripped(urlsplit(UrlText(arg1))) )
  => out1 = out2

\* C7 witness: two URLs that differ in all four ways normalized equal.
C7_Witness ==
  /\ upc = "compared"
  /\ varied = {"scheme", "www", "tracking", "slash"}
  /\ arg1 # arg2
  /\ out1 = out2
  /\ out1 # ValueError

\* the fields of a query string as pairs of decoded name and value, in the
\* order of the string
QueryPairs(query) ==
  LET fields == IF Len(query) = 0 THEN <<>> ELSE Split(query, "&")
      pair(f) == LET eq == Find(f, {"="}, 1)
                 IN  IF eq = 0 THEN <<UnquotePlus(f), <<>>>>
                     ELSE <<UnquotePlus(Take(f, eq - 1)),
                            UnquotePlus(Drop(f, eq))>>
  IN  [n \in 1..Len(fields) |-> pair(fields[n])]

\* the pairs of a query string whose name is not on the deny-list
KeptPairs(query) ==
  LET keep(pair) == ~IsTrackingKey(pair[1])
  IN  SelectSeq(QueryPairs(query), keep)

\* C8: normalize_url keeps every query parameter whose key is not on the
\* deny-list, the kept (key, value) pairs in the relative order they have in
\* the input, also when a key occurs again after other keys; and it drops the
\* fragment.
C8_KeepsParametersInOrder ==
  (upc = "once" /\ out1 # ValueError) =>
     /\ KeptPairs(urlparse(out1).query)
          = KeptPairs(urlparse(UrlText(arg1)).query)
     /\ urlparse(out1).fragment = <<>>

\* the claim's preconditions on an item and the reference time
NearCaps(item, reference) ==
  /\ AgeInHours(item.published, reference) = 0
  /\ Credibility(item.source) = 20
  /\ KeywordMatches(item.title, item.summary) >= 3
  /\ Len(extract_numbers(item.title \o <<" ">> \o item.summary)) >= 4

\* C9 as stated: an item with hours_old = 0, a source of credibility 20, at
\* least 3 matching keywords and at least 4 numeric matches scores at least
\* 30 + 20 + 10 + 15 = 75 and at most 65 + 20 = 85.
C9_ScoreNearCaps ==
  (upc = "scored" /\ NearCaps(arg1, arg2.reference_time)) =>
     /\ FloatLeq(FloatFromInt(75), out1)
     /\ FloatLeq(out1, FloatFromInt(85))

\* C9 amended: such an item scores at least 30 + 20 + 10 + 9 = 69 and at most
\* 85, and at least 75 when 5 or more keywords match (a keyword counts 3, so
\* the keyword cap of 15 takes 5 keywords).
C9_ScoreNearCapsFiveKeywords ==
  (upc = "scored" /\ NearCaps(arg1, arg2.reference_time)) =>
     /\ FloatLeq(FloatFromInt(69), out1)
     /\ FloatLeq(out1, FloatFromInt(85))
     /\ KeywordMatches(arg1.title, arg1.summary) >= 5
          => FloatLeq(FloatFromInt(75), out1)

\* C9 witness: such an item with 6 matching keywords and a lookback of 24
\* hours scored 75.
C9_Witness ==
  /\ upc = "scored"
  /\ NearCaps(arg1, arg2.reference_time)
  /\ KeywordMatches(arg1.title, arg1.summary) = 6
  /\ arg2.lookback_hours = 24
  /\ out1 = FloatFromInt(75)

\* the keywords of the list that occur in the lower-cased title + " " + summary
KeywordsPresent(item) ==
  { kw \in Refs(SCORING_KEYWORDS) :
      Contains(Lower(item.title \o <<" ">> \o item.summary), Lower(kw)) }

\* C10: score_item returns the unclamped sum of max(0, 30 * (1 - hours_old /
\* lookback_hours)), the credibility of the source, min(10, 3 * n) for the n
\* number matches in title + " " + summary and min(15, 3 * k) for the k
\* keywords of the list that occur in it.
C10_ScoreIsSumOfFour ==
  upc = "scored" =>
     LET hours_old == hours_since(arg1.published, arg2.reference_time)
         n == Len(extract_numbers(arg1.title \o <<" ">> \o arg1.summary))
         k == Cardinality(KeywordsPresent(arg1))
         decay == FloatMul(FloatFromInt(30),
                           FloatSub(FloatFromInt(1),
                                    FloatDiv(hours_old,
                                             FloatFromInt(arg2.lookback_hours))))
         recency == IF FloatLess(FloatZero, decay) THEN decay ELSE FloatZero
     IN  out1 = SumOfFour(recency,
                          DictGet(SOURCE_CREDIBILITY, arg1.source, 5),
                          Min(10, 3 * n), Min(15, 3 * k))

\* C10 witness: an item dated after the reference time scored more than 75,
\* the sum of the four caps, every component being above zero.
C10_Witness ==
  /\ upc = "scored"
  /\ AgeInHours(arg1.published, arg2.reference_time) < 0
  /\ KeywordsPresent(arg1) # {}
  /\ Len(extract_numbers(arg1.title \o <<" ">> \o arg1.summary)) > 0
  /\ FloatLess(FloatFromInt(75), out1)

\* the credibility, numbers and keyword components of an item's score
RestOf(item) ==
  Credibility(item.source) + NumbersScore(item.title, item.summary)
    + KeywordScore(item.title, item.summary)

\* what the recency component added to the returned score: the score less
\* the credibility, numbers and keyword components
RecencyOf(score, item) == FloatSub(score, FloatFromInt(RestOf(item)))

\* C11: the recency component is 30 at age 0, decays linearly (to within
\* 1e-9 of 30 * (lookback_hours - age) / lookback_hours) to 0 at age
\* lookback_hours, is 0 at every age from lookback_hours on and is never
\* negative; an over-age item is scored, with recency 0.
C11_RecencyDecaysLinearlyToZero ==
  upc = "scored" =>
     LET L == arg2.lookback_hours
         hours_old == AgeInHours(arg1.published, arg2.reference_time)
         recency == RecencyOf(out1, arg1)
     IN  /\ FloatLeq(FloatZero, recency)
         /\ hours_old = 0 => recency = FloatFromInt(30)
         /\ (0 <= hours_old /\ hours_old <= L) =>
               FloatNear(recency,
                         FloatDiv(FloatFromInt(30 * (L - hours_old)),
                                  FloatFromInt(L)))
         /\ hours_old >= L => recency = FloatZero

\* C11 witness: an item 27 hours old was scored with a lookback of 24 hours
\* and got its credibility, numbers and keyword points and nothing for recency.
C11_Witness ==
  /\ upc = "scored"
  /\ arg2.lookback_hours = 24
  /\ AgeInHours(arg1.published, arg2.reference_time) = 27
  /\ RecencyOf(out1, arg1) = FloatZero
  /\ FloatLess(FloatZero, out1)

\* the number matches score_item counts in an item
NumberMatches(item) ==
  Len(extract_numbers(item.title \o <<" ">> \o item.summary))

\* C12: for one reference_time and lookback_hours, an item that is no older,
\* no less credible and has no fewer number and keyword matches than another
\* scores at least as much; of two items that differ in published only, both
\* of age in [0, lookback_hours), the more recent scores strictly more; of two
\* that differ in source only, the strictly more credible scores strictly more.
C12_ScoreIsMonotone ==
  upc = "both" =>
     LET ageA == AgeInHours(arg1.published, reference_time)
         ageB == AgeInHours(arg2.published, reference_time)
         credA == DictGet(SOURCE_CREDIBILITY, arg1.source, 5)
         credB == DictGet(SOURCE_CREDIBILITY, arg2.source, 5)
     IN  /\ ( /\ ageA <= ageB
              /\ credA >= credB
              /\ NumberMatches(arg1) >= NumberMatches(arg2)
              /\ KeywordMatches(arg1.title, arg1.summary)
                   >= KeywordMatches(arg2.title, arg2.summary) )
            => FloatLeq(out2, out1)
         /\ ( /\ [arg1 EXCEPT !.published = arg2.published] = arg2
              /\ 0 <= ageA
              /\ ageA < ageB
              /\ ageB < lookback_hours )
            => FloatLess(out2, out1)
         /\ ( /\ [arg1 EXCEPT !.source = arg2.source] = arg2
              /\ credA > credB )
            => FloatLess(out2, out1)

\* C12 witness: with a lookback of 24 hours an item 1 hour old from "OpenAI
\* Blog" with 4 keyword matches outscored one 20 hours old from an unknown
\* source with 1 keyword match.
C12_Witness ==
  /\ upc = "both"
  /\ lookback_hours = 24
  /\ AgeInHours(arg1.published, reference_time) = 1
  /\ arg1.source = "OpenAI Blog"
  /\ KeywordMatches(arg1.title, arg1.summary) = 4
  /\ AgeInHours(arg2.published, reference_time) = 20
  /\ arg2.source \notin DOMAIN SOURCE_CREDIBILITY
  /\ KeywordMatches(arg2.title, arg2.summary) = 1
  /\ arg1.summary = <<>>
  /\ arg2.summary = <<>>
  /\ FloatLess(out2, out1)

\* the credibility the claim gives a source: its table value, 5 when the
\* table does not have it
SourceWeight(source) ==
  IF source \in DOMAIN SOURCE_CREDIBILITY THEN SOURCE_CREDIBILITY[source] ELSE 5

\* C13: a source the credibility table does not have causes no error (in a
\* call with a positive top_n on items whose URLs urlparse accepts), and
\* deduplicate_items and score_item both count it as 5 and every other source
\* as its table value: of two title-duplicates the second replaces the first
\* exactly when its weight is strictly higher, and the weight is the
\* credibility part of every score.
C13_UnknownSourceCountsFive ==
  /\ ( /\ input # <<>>
       /\ entry = "deduplicate_items" \/ top_n > 0
       /\ \A a \in Refs(input) : NormalizedUrlOf(a) # ValueError )
     => raised = ""
  /\ ( /\ entry = "deduplicate_items"
       /\ pc = "done"
       /\ round = 1
       /\ Len(input) = 2
       /\ OneTitleCluster )
     => ret = IF SourceWeight(heap[2].source) > SourceWeight(heap[1].source)
              THEN <<2>> ELSE <<1>>
  /\ (pc = "done" /\ entry \in {"score_and_rank_items", "process_items"})
     => \A k \in 1..Len(unique_items) :
           LET item == heap[unique_items[k]]
               age == hours_since(item.published, reference_time)
           IN  item.score
                 = SumOfFour(recency_score(age, lookback_hours),
                             SourceWeight(item.source),
                             NumbersScore(item.title, item.summary),
                             KeywordScore(item.title, item.summary))

\* C13 witness: process_items was given an item of a source the table does not
\* have and then a title-duplicate of it from a source of weight 8; it
\* returned the second, with a score.
C13_Witness ==
  /\ entry = "process_items"
  /\ pc = "done"
  /\ Len(input) = 2
  /\ OneTitleCluster
  /\ heap[1].source \notin DOMAIN SOURCE_CREDIBILITY
  /\ SourceWeight(heap[2].source) = 8
  /\ ret = <<2>>
  /\ FloatLess(FloatFromInt(8), Score(2))

\* C14: the only thing the core writes is the score field of an item, and it
\* is score_and_rank_items that writes it (called directly or by
\* process_items): no step changes title, url, source, published, summary,
\* content or authors of an item or the number of items, deduplicate_items
\* writes nothing, and no step adds, removes or reorders elements of the
\* caller's list.
C14_OnlyScoreIsWritten ==
  [][ /\ input' = input
      /\ Len(heap') = Len(heap)
      /\ \A k \in 1..Len(heap) :
            [heap'[k] EXCEPT !.score = heap[k].score] = heap[k]
      /\ heap' # heap =>
            /\ pc = "score"
            /\ entry \in {"score_and_rank_items", "process_items"} ]_vars

\* C14 witness: process_items has returned fewer items than the three it was
\* given; the caller's list still names the three in order, every item is as
\* it was created but for the score, and the stored url of a returned item is
\* not its normalized form.
C14_Witness ==
  /\ entry = "process_items"
  /\ pc = "done"
  /\ input = <<1, 2, 3>>
  /\ Len(ret) < 3
  /\ \A k \in 1..3 : [heap[k] EXCEPT !.score = FloatZero] \in ItemPool
  /\ \E k \in 1..Len(ret) :
        /\ Score(ret[k]) # FloatZero
        /\ normalize_url(heap[ret[k]].url) # heap[ret[k]].url

\* two items with equal published, source, title and summary
SameScoredFields(a, b) ==
  /\ heap[a].published = heap[b].published
  /\ heap[a].source = heap[b].source
  /\ heap[a].title = heap[b].title
  /\ heap[a].summary = heap[b].summary

\* C15: in a process_items call nothing of the ranking exists before
\* deduplicate_items has returned, nothing is sorted before the scoring loop
\* has ended, and once the list is sorted and cut every survivor carries the
\* score of one and the same reference time, however the clock moved during
\* the loop; so two survivors with equal published, source, title and summary
\* have equal scores.
C15_OneReferenceTimePerCall ==
  entry = "process_items" =>
     /\ pc \in {"call", "dedupe", "url_pass", "title_pass"} =>
           /\ unique_items = <<>>
           /\ reference_time = NoTime
           /\ sorted_items = <<>>
           /\ top_items = <<>>
     /\ pc \in {"rank", "score"} =>
           /\ unique_items = deduplicated
           /\ sorted_items = <<>>
           /\ top_items = <<>>
     /\ pc \in {"log", "done"} =>
           /\ \E t \in ClockValues :
                 \A a \in Refs(unique_items) :
                    Score(a) = score_item(heap[a], Utc(t), lookback_hours)
           /\ \A a \in Refs(unique_items), b \in Refs(unique_items) :
                 SameScoredFields(a, b) => Score(a) = Score(b)
           /\ top_items = TopSlice(sorted_items, top_n)

\* C15 witness: two different items with equal published, source, title and
\* summary survived deduplication, the clock moved on after reference_time was
\* read, and process_items returned with equal scores on the two.
C15_Witness ==
  /\ entry = "process_items"
  /\ pc = "done"
  /\ now # reference_time.wall
  /\ \E a \in Refs(unique_items), b \in Refs(unique_items) :
        /\ a # b
        /\ SameScoredFields(a, b)
        /\ Score(a) = Score(b)
        /\ Score(a) # FloatZero

\* the position of an item in a list that holds it once
PositionIn(list, x) == CHOOSE k \in 1..Len(list) : list[k] = x

\* C16: ties are broken stably: two items of equal score in the list
\* score_and_rank_items returns are in the order they have in the list it was
\* given, and of two items of equal score of which only one is returned, the
\* returned one is the earlier in the list given.
C16_TiesKeepInputOrder ==
  (pc = "done" /\ entry \in {"score_and_rank_items", "process_items"}) =>
     /\ \A i \in 1..Len(ret), j \in 1..Len(ret) :
           (i < j /\ Score(ret[i]) = Score(ret[j])) =>
              PositionIn(unique_items, ret[i]) < PositionIn(unique_items, ret[j])
     /\ \A a \in Refs(ret), b \in Refs(unique_items) \ Refs(ret) :
           Score(a) = Score(b) =>
              PositionIn(unique_items, a) < PositionIn(unique_items, b)

\* C16 witness: three items of one score were ranked with top_n = 2; the
\* first two came back in their order and the third was cut.
C16_Witness ==
  /\ pc = "done"
  /\ entry = "score_and_rank_items"
  /\ top_n = 2
  /\ unique_items = <<1, 2, 3>>
  /\ Score(1) = Score(2)
  /\ Score(2) = Score(3)
  /\ ret = <<1, 2>>

\* the score an item had when the call of this round started
ScoreBeforeCall(ref) == IF round = 1 THEN FloatZero ELSE first_heap[ref].score

\* C17: when process_items has returned, every item that survived
\* deduplication, returned or cut off by top_n, has the score score_item gives
\* it for the reference_time of the call, and every item deduplication dropped
\* has the score it had before the call (0.0 on a fresh item).
C17_SurvivorsScoredDroppedUntouched ==
  (entry = "process_items" /\ pc = "done") =>
     \A a \in Refs(input) :
        IF a \in Refs(unique_items)
        THEN Score(a) = score_item(heap[a], reference_time, lookback_hours)
        ELSE Score(a) = ScoreBeforeCall(a)

\* C17 witness: of three fresh items one was dropped by deduplication and
\* still has score 0.0, and of the two survivors the one cut off by top_n = 1
\* has a score above zero like the one returned.
C17_Witness ==
  /\ entry = "process_items"
  /\ pc = "done"
  /\ round = 1
  /\ top_n = 1
  /\ Len(input) = 3
  /\ Len(unique_items) = 2
  /\ Len(ret) = 1
  /\ \E a \in Refs(input) \ Refs(unique_items) : Score(a) = FloatZero
  /\ \E b \in Refs(unique_items) \ Refs(ret) : FloatLess(FloatZero, Score(b))

\* C18: from a non-empty list and a positive top_n score_and_rank_items returns
\* distinct elements of the list it was given, and no item it left out has a
\* score strictly greater than that of an item it returned.
C18_ReturnsTheTopScores ==
  (pc = "done" /\ entry \in {"score_and_rank_items", "process_items"}
     /\ input # <<>> /\ top_n > 0) =>
     /\ Refs(ret) \subseteq Refs(unique_items)
     /\ \A i \in 1..Len(ret), j \in 1..Len(ret) : i # j => ret[i] # ret[j]
     /\ \A a \in Refs(unique_items) \ Refs(ret), b \in Refs(ret) :
           ~FloatLess(Score(b), Score(a))

\* C18 witness: of three items given to score_and_rank_items with top_n = 2
\* the last one has the highest score and came back first, and the one left
\* out has a score strictly below both returned.
C18_Witness ==
  /\ pc = "done"
  /\ entry = "score_and_rank_items"
  /\ top_n = 2
  /\ Len(input) = 3
  /\ Len(ret) = 2
  /\ ret[1] = 3
  /\ FloatLess(Score(ret[2]), Score(ret[1]))
  /\ \E a \in Refs(input) \ Refs(ret) : FloatLess(Score(a), Score(ret[2]))

\* C19: for an item not dated after the reference time and a positive
\* lookback_hours, with the shipped credibility table and keyword list, the
\* score score_item returns lies within 5 to 95.
C19_ScoreWithinFiveToNinetyFive ==
  ( /\ upc = "scored"
    /\ AgeInHours(arg1.published, arg2.reference_time) >= 0
    /\ arg2.lookback_hours > 0 )
  => /\ FloatLeq(FloatFromInt(5), out1)
     /\ FloatLeq(out1, FloatFromInt(95))

\* C19 witness: an over-age item of a source the table does not have, with no
\* number and no keyword in its text, scored exactly 5.
C19_Witness ==
  /\ upc = "scored"
  /\ AgeInHours(arg1.published, arg2.reference_time) > arg2.lookback_hours
  /\ arg1.source \notin DOMAIN SOURCE_CREDIBILITY
  /\ NumberMatches(arg1) = 0
  /\ KeywordMatches(arg1.title, arg1.summary) = 0
  /\ out1 = FloatFromInt(5)

\* C20: every item a fetch function hands to the core has a published
\* timestamp: a missing or unparseable date was replaced by the current time
\* or the entry was skipped, so score_item is never given an item without one.
C20_FetchedItemsHaveTimestamp ==
  upc \in {"fetched", "score", "log", "handed", "raised"} =>
     /\ \A k \in 1..Len(out1) : heap[out1[k]].published # None
     /\ raised # "AttributeError"

\* C21: the first pass keeps the first item seen and compares no
\* credibilities: of the input items whose URLs normalize to one string, every
\* one but the earliest in input order is missing from what deduplicate_items
\* returns, also when it is strictly more credible than the earliest.
C21_FirstSeenUrlWins ==
  (entry = "deduplicate_items" /\ pc = "done" /\ round = 1) =>
     \A a \in Refs(input), b \in Refs(input) :
        (a < b /\ NormalizedUrlOf(a) = NormalizedUrlOf(b)) => b \notin Refs(ret)

\* C21 witness: of two items with one normalized URL the second is strictly
\* more credible, and only the first came back.
C21_Witness ==
  /\ entry = "deduplicate_items"
  /\ pc = "done"
  /\ round = 1
  /\ Len(input) = 2
  /\ NormalizedUrlOf(1) = NormalizedUrlOf(2)
  /\ Credibility(heap[2].source) > Credibility(heap[1].source)
  /\ ret = <<1>>

\* the positions of the entries of the output list the new item matches
MatchesOf(item) ==
  {k \in 1..Len(deduplicated) : SimilarTitles(item, deduplicated[k])}

\* a list without its element at position j
WithoutPosition(list, j) ==
  SubSeq(list, 1, j - 1) \o SubSeq(list, j + 1, Len(list))

\* C22: a turn of the second pass with a new item that matches an entry of
\* the output list either removes exactly the matched entry and appends the
\* new item at the end, the other entries keeping their order (new item
\* strictly more credible), or leaves the list as it is (otherwise); the list
\* never gets shorter and gets longer by one exactly when no entry matches.
C22_ReplacementGoesToTheEnd ==
  [][ (pc = "title_pass" /\ idx <= Len(url_unique)) =>
         LET item == url_unique[idx]
             hits == MatchesOf(item)
         IN  /\ Len(deduplicated') >= Len(deduplicated)
             /\ Len(deduplicated') = Len(deduplicated) + 1 <=> hits = {}
             /\ hits = {} => deduplicated' = Append(deduplicated, item)
             /\ hits # {} =>
                   \E j \in hits :
                      IF SourceWeight(heap[item].source)
                           > SourceWeight(heap[deduplicated[j]].source)
                      THEN deduplicated'
                             = Append(WithoutPosition(deduplicated, j), item)
                      ELSE deduplicated' = deduplicated ]_vars

\* C22 witness: the output list held two entries when a third item replaced
\* the first of them; the list is now the untouched second entry and then the
\* new item.
C22_Witness ==
  /\ pc = "title_pass"
  /\ idx = 4
  /\ url_unique = <<1, 2, 3>>
  /\ SimilarTitles(3, 1)
  /\ ~SimilarTitles(2, 1)
  /\ deduplicated = <<2, 3>>

\* C23: the new item is compared with the entries of the output list in list
\* order up to the first whose similarity is at or above the threshold; that
\* entry alone is weighed against the new item and possibly removed, and the
\* entries after it stay where they are, also those that match as well and
\* are less credible than the new item.
C23_OnlyFirstMatchIsConsulted ==
  [][ (pc = "title_pass" /\ idx <= Len(url_unique)
         /\ MatchesOf(url_unique[idx]) # {}) =>
         LET item == url_unique[idx]
             hits == MatchesOf(item)
             first == CHOOSE j \in hits : \A m \in hits : j <= m
         IN  /\ deduplicated' =
                   IF SourceWeight(heap[item].source)
                        > SourceWeight(heap[deduplicated[first]].source)
                   THEN Append(WithoutPosition(deduplicated, first), item)
                   ELSE deduplicated
             /\ \A k \in hits \ {first} :
                   deduplicated[k] \in Refs(deduplicated') ]_vars

\* C23 witness: the third item matched both entries of the output list, the
\* first of them with a similarity equal to the threshold, and was more
\* credible than both; it replaced the first and the second is still there.
C23_Witness ==
  /\ pc = "title_pass"
  /\ idx = 4
  /\ url_unique = <<1, 2, 3>>
  /\ title_similarity(heap[3].title, heap[1].title) = similarity_threshold
  /\ SimilarTitles(3, 2)
  /\ Credibility(heap[3].source) > Credibility(heap[1].source)
  /\ Credibility(heap[3].source) > Credibility(heap[2].source)
  /\ deduplicated = <<2, 3>>

\* C24: for an item published after the reference time the recency component
\* is not clamped at 30: it is 30 * (1 + d / lookback_hours), to within 1e-9,
\* for an item dated d hours ahead, strictly above 30 and growing with d
\* without a bound.
C24_FutureRecencyAboveThirty ==
  (upc = "scored" /\ AgeInHours(arg1.published, arg2.reference_time) < 0) =>
     LET L == arg2.lookback_hours
         ahead == 0 - AgeInHours(arg1.published, arg2.reference_time)
         recency == RecencyOf(out1, arg1)
     IN  /\ FloatLess(FloatFromInt(30), recency)
         /\ FloatNear(recency,
                      FloatDiv(FloatFromInt(30 * L + 30 * ahead),
                               FloatFromInt(L)))

\* C24 witness: an item dated 30 hours ahead scored with a lookback of 1 hour
\* has a recency of 930.
C24_Witness ==
  /\ upc = "scored"
  /\ arg2.lookback_hours = 1
  /\ AgeInHours(arg1.published, arg2.reference_time) = -30
  /\ RecencyOf(out1, arg1) = FloatFromInt(930)

\* C25: title_similarity gives exactly 1.0 for two titles that are equal
\* after lower-casing and trimming, so deduplicate_items reduces two items
\* with such titles to one, whatever their URLs, for every threshold up to 1.0.
C25_CaseAndSpaceIgnored ==
  ( /\ entry = "deduplicate_items"
    /\ pc = "done"
    /\ round = 1
    /\ Len(input) = 2
    /\ Strip(Lower(heap[1].title)) = Strip(Lower(heap[2].title)) )
  => /\ title_similarity(heap[1].title, heap[2].title) = FloatFromInt(1)
     /\ title_similarity(heap[2].title, heap[1].title) = FloatFromInt(1)
     /\ Len(ret) = 1

\* C25 witness: with a threshold of 1.0 two items whose titles differ in case
\* and trailing space only, and whose URLs normalize differently, were
\* reduced to one.
C25_Witness ==
  /\ entry = "deduplicate_items"
  /\ pc = "done"
  /\ round = 1
  /\ similarity_threshold = FloatFromInt(1)
  /\ Len(input) = 2
  /\ heap[1].title # heap[2].title
  /\ Strip(Lower(heap[1].title)) = Strip(Lower(heap[2].title))
  /\ NormalizedUrlOf(1) # NormalizedUrlOf(2)
  /\ Len(ret) = 1

\* the items of the input have pairwise different normalized URLs and no two
\* of them have similar titles
NoDuplicates ==
  \A a \in Refs(input), b \in Refs(input) :
     a # b => /\ NormalizedUrlOf(a) # NormalizedUrlOf(b)
              /\ ~SimilarTitles(a, b)

\* C26: an input without duplicates (pairwise different normalized URLs,
\* pairwise title similarity below the threshold, a single item included)
\* comes back from deduplicate_items whole and in the input order.
C26_NoDuplicatesPassThrough ==
  (entry = "deduplicate_items" /\ pc = "done" /\ round = 1 /\ NoDuplicates)
  => ret = input

\* C26 witness: three items without duplicates among them came back as they
\* went in.
C26_Witness ==
  /\ entry = "deduplicate_items"
  /\ pc = "done"
  /\ round = 1
  /\ Len(input) = 3
  /\ NoDuplicates
  /\ ret = <<1, 2, 3>>

\* no two different items of the returned list have similar titles
FreeOfTitleDuplicates ==
  \A i \in 1..Len(ret), j \in 1..Len(ret) :
     i # j => ~SimilarTitles(ret[i], ret[j])

\* C27 as stated: for every input list, no two different items of the list
\* deduplicate_items returns have a title similarity at or above the threshold.
C27_OutputFreeOfTitleDuplicates ==
  (entry = "deduplicate_items" /\ pc = "done" /\ round = 1)
  => FreeOfTitleDuplicates

\* C27 amended: when title similarity is symmetric and transitive on the
\* titles of the input, no two different items of the list deduplicate_items
\* returns have a title similarity at or above the threshold.
C27_FreeOfDuplicatesOnEquivalence ==
  ( /\ entry = "deduplicate_items"
    /\ pc = "done"
    /\ round = 1
    /\ TitleSimilarityIsEquivalence )
  => FreeOfTitleDuplicates

\* C27 witness: on titles whose similarity is an equivalence, three items with
\* different normalized URLs, the last similar to the first and more credible,
\* came back as two items with titles that are not similar.
C27_Witness ==
  /\ entry = "deduplicate_items"
  /\ pc = "done"
  /\ round = 1
  /\ TitleSimilarityIsEquivalence
  /\ Len(input) = 3
  /\ \A a \in 1..3, b \in 1..3 : a # b => NormalizedUrlOf(a) # NormalizedUrlOf(b)
  /\ SimilarTitles(3, 1)
  /\ Credibility(heap[3].source) > Credibility(heap[1].source)
  /\ ret = <<2, 3>>
  /\ FreeOfTitleDuplicates

\* b is a duplicate of a that may stand for it: it has the same normalized
\* URL, or a similar title and a source at least as credible
StandsFor(b, a) ==
  \/ NormalizedUrlOf(a) = NormalizedUrlOf(b)
  \/ /\ SimilarTitles(a, b) \/ SimilarTitles(b, a)
     /\ Credibility(heap[b].source) >= Credibility(heap[a].source)

\* the items linked to an item of the set by at most n steps of StandsFor
RECURSIVE StandInsOf(_, _)
StandInsOf(set, n) ==
  IF n = 0 THEN set
  ELSE StandInsOf(set \cup {b \in Refs(input) : \E a \in set : StandsFor(b, a)},
                  n - 1)

\* C28 as stated: every input item is in the list deduplicate_items returns,
\* or that list holds a duplicate of it: an item with the same normalized URL,
\* or one with a similar title and a source at least as credible.
C28_EveryItemHasRepresentative ==
  (entry = "deduplicate_items" /\ pc = "done" /\ round = 1) =>
     \A a \in Refs(input) :
        \/ a \in Refs(ret)
        \/ \E b \in Refs(ret) : StandsFor(b, a)

\* C28 amended: every input item is in the returned list or is linked to an
\* item of it by a chain of duplicates, each the same in normalized URL as the
\* one before or similar in title and at least as credible; the returned list
\* need not hold a duplicate of the item itself.
C28_EveryItemHasChainToOutput ==
  (entry = "deduplicate_items" /\ pc = "done" /\ round = 1) =>
     \A a \in Refs(input) :
        StandInsOf({a}, Len(input)) \cap Refs(ret) # {}

\* C28 witness: the second item went because the first has its normalized
\* URL, the first was then replaced by the third, similar in title and more
\* credible; the returned third item is no duplicate of the second.
C28_Witness ==
  /\ entry = "deduplicate_items"
  /\ pc = "done"
  /\ round = 1
  /\ Len(input) = 3
  /\ NormalizedUrlOf(2) = NormalizedUrlOf(1)
  /\ StandsFor(3, 1)
  /\ ~StandsFor(3, 2)
  /\ ret = <<3>>
  /\ 3 \in StandInsOf({2}, 2)

\* the netloc still begins with "www.", in any letter case, after the one
\* removal normalize_url makes
WwwLeftOnHost(netloc) ==
  StartsWith(Lower(IF StartsWith(netloc, <<"w", "w", "w", ".">>) THEN Drop(netloc, 4) ELSE netloc),
             <<"w", "w", "w", ".">>)

\* a path without the "/"s at its end
Trimmed(path) == Take(path, RFind(path, Refs(path) \ {"/"}))

\* the result is re-read with a netloc the URL did not have: the netloc is
\* empty once "www." is gone and the path left begins with "//"
PathReadAsNetloc(parsed) ==
  /\ parsed.netloc \in {<<>>, <<"w", "w", "w", ".">>}
  /\ StartsWith(Trimmed(parsed.path), <<"/", "/">>)

\* the path lost a "/" at its end and the first ";" of the last segment
\* left is read as the start of path parameters the second time
SemiReadAsParams(parsed) ==
  /\ parsed.scheme \in uses_params
  /\ Len(parsed.path) > 0
  /\ parsed.path[Len(parsed.path)] = "/"
  /\ SemiMoves(parsed.scheme, parsed.netloc, Trimmed(parsed.path),
               FirstSemi(Trimmed(parsed.path)), parsed.params = <<>>)

\* C29 as stated: normalize_url applied to its own result returns that result,
\* for every URL, hosts with several "www." labels or an upper-case "WWW."
\* included.
C29_NormalizeUrlIdempotent ==
  upc = "twice" => out2 = out1

\* C29 amended: for a URL urlparse accepts, normalize_url applied to its own
\* result returns that result when (1) the netloc no longer begins with
\* "www.", in any letter case, after the one case-sensitive removal of a
\* leading "www."; (2) the path without its trailing slashes does not begin
\* with "//" after an empty netloc; and (3) for a scheme with path
\* parameters and a path that ends in "/", the last segment left without the
\* trailing slashes does not end at its first ";" (the URL having no
\* parameters) and has no "/" right before it other than the "/" written
\* back after the netloc.  A netloc www.www.x or WWW.x loses another prefix
\* the second time, https:////X/a comes back as https://X/a and is lower-cased
\* as a netloc, and /a/;p/ loses its last "/" first and the "/" before the
\* ";" second.
C29_IdempotentOnceWwwIsGone ==
  ( /\ upc = "twice"
    /\ ~WwwLeftOnHost(urlparse(UrlText(arg1)).netloc)
    /\ ~PathReadAsNetloc(urlparse(UrlText(arg1)))
    /\ ~SemiReadAsParams(urlparse(UrlText(arg1))) )
  => out2 = out1

\* C29 witness: a URL with a "www." host, trailing slashes, a tracking
\* parameter and a fragment was normalized twice; the first application
\* changed all four and the second changed nothing.
C29_Witness ==
  /\ upc = "twice"
  /\ arg1.netloc = <<"w", "w", "w", ".", "e", "x", "a", "m", "p", "l", "e", ".", "c", "o", "m">>
  /\ arg1.path = <<"/", "a", "/", "/">>
  /\ Len(arg1.query) = 1
  /\ arg1.fragment # <<>>
  /\ urlparse(out1).netloc = <<"e", "x", "a", "m", "p", "l", "e", ".", "c", "o", "m">>
  /\ urlparse(out1).path = <<"/", "a">>
  /\ urlparse(out1).query = <<>>
  /\ out2 = out1

\* C30: process_items called a second time on the same list, whose items
\* carry the scores the first call wrote, with the same reference time,
\* returns the same items in the same order with the same scores; no object
\* is left different from how the first call left it.  (SOURCE_CREDIBILITY
\* and SCORING_KEYWORDS are only ever read: no action assigns to them.)
C30_SecondCallSameResult ==
  ( /\ entry = "process_items"
    /\ round = 2
    /\ pc = "done"
    /\ reference_time = first_reference_time )
  => /\ ret = first_ret
     /\ \A k \in 1..Len(ret) : heap[ret[k]].score = first_heap[ret[k]].score
     /\ heap = first_heap

\* C30 witness: the second call of process_items has returned, with the
\* reference time of the first; the first call had dropped a duplicate, put a
\* later item before an earlier one and written scores other than 0 into the
\* items the second call was handed.
C30_Witness ==
  /\ entry = "process_items"
  /\ round = 2
  /\ pc = "done"
  /\ reference_time = first_reference_time
  /\ Len(input) = 3
  /\ Len(first_ret) = 2
  /\ first_ret[1] > first_ret[2]
  /\ \E a \in Refs(input) : a \notin Refs(first_ret) /\ first_heap[a].score = FloatZero
  /\ \A k \in 1..2 : first_heap[first_ret[k]].score # FloatZero
  /\ ret = first_ret

====
